---------------------------- MODULE Spec2Model ----------------------------
(***************************************************************************)
(* MemoryMesh: the tool dispatcher (src/src/tools/callToolHandler.js), the *)
(* registry of schema-compiled tools (src/src/tools/registry/              *)
(* dynamicTools.ts) and the Graph Store they drive.  The Graph Store       *)
(* (KnowledgeGraphManager) and the schema compiler are not part of the     *)
(* sources at hand; their operators below follow sections 3, 4 and 5 of    *)
(* the specification and are marked as such in the model map.              *)
(***************************************************************************)
EXTENDS Integers, Sequences, FiniteSets, TLC

(***************************************************************************)
(* Bounds of the model.                                                    *)
(***************************************************************************)
MaxBatch == 2
MaxEdges == 2
MaxNodes == 3
MaxLoads == 2
MaxLines == 4
MaxFiles == 2

(***************************************************************************)
(* Tool names are character sequences, so that the prefix test of the      *)
(* dispatcher is computed and not assumed.                                 *)
(***************************************************************************)
T_add_nodes == <<"a", "d", "d", "_", "n", "o", "d", "e", "s">>
T_update_nodes == <<"u", "p", "d", "a", "t", "e", "_", "n", "o", "d", "e", "s">>
T_add_edges == <<"a", "d", "d", "_", "e", "d", "g", "e", "s">>
T_update_edges == <<"u", "p", "d", "a", "t", "e", "_", "e", "d", "g", "e", "s">>
T_add_metadata == <<"a", "d", "d", "_", "m", "e", "t", "a", "d", "a", "t", "a">>
T_delete_nodes == <<"d", "e", "l", "e", "t", "e", "_", "n", "o", "d", "e", "s">>
T_delete_metadata == <<"d", "e", "l", "e", "t", "e", "_", "m", "e", "t", "a", "d", "a", "t", "a">>
T_delete_edges == <<"d", "e", "l", "e", "t", "e", "_", "e", "d", "g", "e", "s">>
T_read_graph == <<"r", "e", "a", "d", "_", "g", "r", "a", "p", "h">>
T_search_nodes == <<"s", "e", "a", "r", "c", "h", "_", "n", "o", "d", "e", "s">>
T_open_nodes == <<"o", "p", "e", "n", "_", "n", "o", "d", "e", "s">>
T_add_npc == <<"a", "d", "d", "_", "n", "p", "c">>
T_update_npc == <<"u", "p", "d", "a", "t", "e", "_", "n", "p", "c">>
T_delete_npc == <<"d", "e", "l", "e", "t", "e", "_", "n", "p", "c">>
T_add_quest == <<"a", "d", "d", "_", "q", "u", "e", "s", "t">>
T_add_location == <<"a", "d", "d", "_", "l", "o", "c", "a", "t", "i", "o", "n">>
T_add_unicorn == <<"a", "d", "d", "_", "u", "n", "i", "c", "o", "r", "n">>
T_get_npc == <<"g", "e", "t", "_", "n", "p", "c">>
T_readd_npc == <<"r", "e", "a", "d", "d", "_", "n", "p", "c">>

P_add == <<"a", "d", "d", "_">>
P_update == <<"u", "p", "d", "a", "t", "e", "_">>
P_delete == <<"d", "e", "l", "e", "t", "e", "_">>

BuiltinNames ==
    {T_add_nodes, T_update_nodes, T_add_edges, T_update_edges, T_add_metadata,
     T_delete_nodes, T_delete_metadata, T_delete_edges, T_read_graph,
     T_search_nodes, T_open_nodes}

MutatingBuiltins ==
    {T_add_nodes, T_update_nodes, T_add_edges, T_update_edges, T_add_metadata,
     T_delete_nodes, T_delete_metadata, T_delete_edges}

SchemaNames == {T_add_npc, T_update_npc, T_delete_npc}

OtherNames == {T_add_unicorn, T_get_npc, T_readd_npc}

ToolNames == BuiltinNames \cup SchemaNames \cup OtherNames

(***************************************************************************)
(* The values the requests are built from.                                 *)
(***************************************************************************)
NodeNames == {"Garrick", "Tavern"}
NodeTypes == {"npc", "location"}
EdgeTypes == {"located_in"}
StatusLine == "Status: Alive"
Absent == "<absent>"

Range(s) == {s[i] : i \in 1..Len(s)}

SeqsUpTo(S, n) == UNION {[1..k -> S] : k \in 0..n}

EmptyGraph == [nodes |-> <<>>, edges |-> <<>>]


(***************************************************************************)
(* GRAPH STORE (specification, section 4.2).  A graph is a record of two   *)
(* sequences: the nodes [name, nodeType, metadata] and the edges           *)
(* [from, to, edgeType].  Every method takes the graph it read and yields  *)
(* [threw, error, g]: the graph it would persist, or the failure it raises.*)
(***************************************************************************)
Ok(g) == [threw |-> FALSE, error |-> "", g |-> g]
Threw(e, g) == [threw |-> TRUE, error |-> e, g |-> g]

NameTaken_Never(ns, name) == FALSE

\* addNodes: "a node whose name already exists"
NameTaken(ns, name) == \E i \in 1..Len(ns) : ns[i].name = name

RECURSIVE AddNodesTo(_, _)
\* addNodes: items are taken in order; an item whose name exists is rejected
AddNodesTo(ns, batch) ==
    IF batch = <<>> THEN ns
    ELSE AddNodesTo(IF NameTaken(ns, Head(batch).name) THEN ns
                    ELSE Append(ns, Head(batch)),
                    Tail(batch))

addNodes(g, batch) == Ok([g EXCEPT !.nodes = AddNodesTo(g.nodes, batch)])

\* updateNodes: the supplied fields replace those of the node of that name
MergeNode(ns, item) ==
    [i \in 1..Len(ns) |->
        IF ns[i].name = item.name
        THEN [ns[i] EXCEPT !.nodeType = item.nodeType, !.metadata = item.metadata]
        ELSE ns[i]]

RECURSIVE UpdateNodesIn(_, _)
UpdateNodesIn(ns, batch) ==
    IF batch = <<>> THEN ns
    ELSE UpdateNodesIn(MergeNode(ns, Head(batch)), Tail(batch))

updateNodes(g, batch) == Ok([g EXCEPT !.nodes = UpdateNodesIn(g.nodes, batch)])

\* addEdges: the edges are appended; the endpoints are not looked up
\* (section 3: "not by rejecting edge creation against not-yet-existing
\* endpoints") and equal triples may repeat
addEdges(g, batch) == Ok([g EXCEPT !.edges = g.edges \o batch])

\* updateEdges: an edge is found by its exact triple, which is all it holds
updateEdges(g, batch) == Ok(g)

\* deleteEdges: every edge equal to an item of the batch is removed
deleteEdges(g, batch) ==
    Ok([g EXCEPT !.edges = SelectSeq(g.edges, LAMBDA e : e \notin Range(batch))])

RECURSIVE AppendNew(_, _)
\* addMetadata: "skipping duplicates already present"
AppendNew(md, contents) ==
    IF contents = <<>> THEN md
    ELSE AppendNew(IF Head(contents) \in Range(md) THEN md
                   ELSE Append(md, Head(contents)),
                   Tail(contents))

AddMetadataTo(ns, entry) ==
    [i \in 1..Len(ns) |->
        IF ns[i].name = entry.nodeName
        THEN [ns[i] EXCEPT !.metadata = AppendNew(@, entry.contents)]
        ELSE ns[i]]

RECURSIVE AddMetadataIn(_, _)
AddMetadataIn(ns, entries) ==
    IF entries = <<>> THEN ns
    ELSE AddMetadataIn(AddMetadataTo(ns, Head(entries)), Tail(entries))

addMetadata(g, entries) == Ok([g EXCEPT !.nodes = AddMetadataIn(g.nodes, entries)])

DeleteMetadataFrom(ns, entry) ==
    [i \in 1..Len(ns) |->
        IF ns[i].name = entry.nodeName
        THEN [ns[i] EXCEPT !.metadata =
                 SelectSeq(@, LAMBDA m : m \notin Range(entry.contents))]
        ELSE ns[i]]

RECURSIVE DeleteMetadataIn(_, _)
DeleteMetadataIn(ns, entries) ==
    IF entries = <<>> THEN ns
    ELSE DeleteMetadataIn(DeleteMetadataFrom(ns, Head(entries)), Tail(entries))

\* deleteMetadata: removes the matching strings, a no-op when absent
deleteMetadata(g, entries) ==
    Ok([g EXCEPT !.nodes = DeleteMetadataIn(g.nodes, entries)])

Cascade_None(es, names) == es

\* deleteNodes: "every edge whose from or to matches a deleted name is also removed"
Cascade(es, names) == SelectSeq(es, LAMBDA e : e.from \notin names /\ e.to \notin names)

deleteNodes(g, names) ==
    Ok([nodes |-> SelectSeq(g.nodes, LAMBDA n : n.name \notin Range(names)),
        edges |-> Cascade(g.edges, Range(names))])

\* openNodes: exact-name lookup; the nodes found and the names not found
openNodes(g, names) ==
    [found |-> SelectSeq(g.nodes, LAMBDA n : n.name \in Range(names)),
     notFound |-> {x \in Range(names) : ~NameTaken(g.nodes, x)}]

(***************************************************************************)
(* COMPILED TOOLS (specification, section 4.1), over the schemas add_npc   *)
(* (src/unnamed/part_000) and add_quest.                                   *)
(***************************************************************************)
addSchemaNode_NodeOnly(g, item) ==
    IF NameTaken(g.nodes, item.node.name) THEN Threw("ConflictError", g)
    ELSE Ok([nodes |-> Append(g.nodes, item.node), edges |-> g.edges])

\* add_<type>: the node and its relationship edges, all or nothing
addSchemaNode(g, item) ==
    IF NameTaken(g.nodes, item.node.name) THEN Threw("ConflictError", g)
    ELSE Ok([nodes |-> Append(g.nodes, item.node), edges |-> g.edges \o item.edges])

\* update_<type>: merges the metadata and replaces the node's outgoing edges
\* of the relationship's type by the new ones
updateSchemaNode(g, item) ==
    IF ~NameTaken(g.nodes, item.name) THEN Threw("NotFoundError", g)
    ELSE Ok([nodes |-> AddMetadataTo(g.nodes,
                           [nodeName |-> item.name, contents |-> item.lines]),
             edges |-> IF item.edges = <<>> THEN g.edges
                       ELSE SelectSeq(g.edges,
                                LAMBDA e : ~(e.from = item.name
                                             /\ e.edgeType = item.edgeType))
                            \o item.edges])

(***************************************************************************)
(* A store operation is [method, def, items]: the method called, whether   *)
(* its argument is defined, and the argument.                              *)
(***************************************************************************)
NoOp == [method |-> "none", def |-> FALSE, items |-> <<>>]

ReadMethods == {"readGraph", "searchNodes", "openNodes"}

\* the argument is a single value where the method takes an array
Mistyped(op) == "scalar" \in DOMAIN op

\* what the method does on the graph g it has read; a missing or mistyped
\* argument is a ValidationError
StoreApply(op, g) ==
    IF op.method \in ReadMethods THEN
        IF op.method # "readGraph" /\ (~op.def \/ Mistyped(op))
        THEN Threw("ValidationError", g) ELSE Ok(g)
    ELSE IF ~op.def \/ Mistyped(op) THEN Threw("ValidationError", g)
    ELSE CASE op.method = "addNodes" -> addNodes(g, op.items)
           [] op.method = "updateNodes" -> updateNodes(g, op.items)
           [] op.method = "addEdges" -> addEdges(g, op.items)
           [] op.method = "updateEdges" -> updateEdges(g, op.items)
           [] op.method = "deleteEdges" -> deleteEdges(g, op.items)
           [] op.method = "addMetadata" -> addMetadata(g, op.items)
           [] op.method = "deleteMetadata" -> deleteMetadata(g, op.items)
           [] op.method = "deleteNodes" -> deleteNodes(g, op.items)
           [] op.method = "addSchemaNode" -> addSchemaNode(g, op.items[1])
           [] op.method = "updateSchemaNode" -> updateSchemaNode(g, op.items[1])
           [] OTHER -> Threw("ValidationError", g)

(***************************************************************************)
(* REQUESTS.  A request is [hasParams, name, args]; args is [kind, items]: *)
(* kind "undefined" is a request without arguments, kind "empty" is {},    *)
(* and every other kind names the one field the object carries.  A field   *)
(* scalar marks a value that is not an array: items then holds that value. *)
(***************************************************************************)
Undefined == [kind |-> "undefined", items |-> <<>>]
EmptyObj == [kind |-> "empty", items |-> <<>>]

NodeArgs ==
    {n \in [name : NodeNames, nodeType : NodeTypes, metadata : {<<>>}] :
        n.name = "Garrick" => n.nodeType = "npc"}
EdgeArgs == {e \in [from : NodeNames, to : NodeNames, edgeType : EdgeTypes] : e.from # e.to}
MetaArgs == [nodeName : NodeNames, contents : {<<StatusLine>>}]
NpcArgs ==
    {a \in [name : NodeNames, currentLocation : NodeNames \cup {Absent}] :
        a.currentLocation # a.name}
QuestArgs == [name : NodeNames]

\* the batches of nodes and of names: every sequence of at most MaxBatch items
Batches(kind, S) == {[kind |-> kind, items |-> b] : b \in SeqsUpTo(S, MaxBatch)}
\* the batches of edges and of metadata entries: empty or of one item
Short(kind, S) == {[kind |-> kind, items |-> <<>>]} \cup {[kind |-> kind, items |-> <<x>>] : x \in S}
One(kind, S) == {[kind |-> kind, items |-> <<x>>] : x \in S}

ProperArgs(name) ==
    CASE name \in {T_add_nodes, T_update_nodes} -> Batches("nodes", NodeArgs)
      [] name \in {T_add_edges, T_update_edges, T_delete_edges} -> Short("edges", EdgeArgs)
      [] name = T_add_metadata -> Short("metadata", MetaArgs)
      [] name = T_delete_metadata -> Short("deletions", MetaArgs)
      [] name = T_delete_nodes -> Batches("nodeNames", NodeNames)
      [] name = T_open_nodes -> Batches("names", NodeNames)
      [] name = T_search_nodes -> One("query", {"Garrick"})
      [] name \in {T_add_npc, T_update_npc, T_delete_npc} -> One("npc", NpcArgs)
      [] name = T_add_quest -> One("quest", QuestArgs)
      [] OTHER -> {}

\* a single value where an array is expected: nodeNames: "Garrick"
Scalar(kind, S) == {[kind |-> kind, items |-> <<x>>, scalar |-> TRUE] : x \in S}

MisshapedArgs(name) ==
    CASE name = T_delete_nodes -> Scalar("nodeNames", NodeNames)
      [] name = T_open_nodes -> Scalar("names", {"Garrick"})
      [] name = T_add_nodes ->
            Scalar("nodes", {[name |-> "Garrick", nodeType |-> "npc", metadata |-> <<>>]})
      [] OTHER -> {}

NoParams == [hasParams |-> FALSE, name |-> <<>>, args |-> Undefined]

Requests ==
    {NoParams} \cup
    {[hasParams |-> TRUE, name |-> n, args |-> a] :
        n \in ToolNames, a \in {Undefined, EmptyObj}} \cup
    UNION {{[hasParams |-> TRUE, name |-> n, args |-> a] :
                a \in ProperArgs(n) \cup MisshapedArgs(n)} : n \in ToolNames}

(***************************************************************************)
(* DISPATCHER (src/src/tools/callToolHandler.js)                           *)
(***************************************************************************)
ArgsMissing_Never(args) == FALSE

\* line 16: if (!args)
ArgsMissing(args) == args.kind = "undefined"

\* lines 26-102: the store method each case of the switch calls
BuiltinMethod(name) ==
    CASE name = T_add_nodes -> "addNodes"
      [] name = T_update_nodes -> "updateNodes"
      [] name = T_add_edges -> "addEdges"
      [] name = T_update_edges -> "updateEdges"
      [] name = T_add_metadata -> "addMetadata"
      [] name = T_delete_nodes -> "deleteNodes"
      [] name = T_delete_metadata -> "deleteMetadata"
      [] name = T_delete_edges -> "deleteEdges"
      [] name = T_read_graph -> "readGraph"
      [] name = T_search_nodes -> "searchNodes"
      [] name = T_open_nodes -> "openNodes"
      [] OTHER -> "none"

\* lines 29-99: the field of args each case passes to its method
BuiltinField(name) ==
    CASE name \in {T_add_nodes, T_update_nodes} -> "nodes"
      [] name \in {T_add_edges, T_update_edges, T_delete_edges} -> "edges"
      [] name = T_add_metadata -> "metadata"
      [] name = T_delete_nodes -> "nodeNames"
      [] name = T_delete_metadata -> "deletions"
      [] name = T_search_nodes -> "query"
      [] name = T_open_nodes -> "names"
      [] OTHER -> "none"

\* Array.isArray of the value the arguments carry
IsArray(args) == "scalar" \notin DOMAIN args

\* args.<field>: undefined unless the object carries that field; the value
\* is passed as it is, array or not
BuiltinOp(name, args) ==
    LET o == [method |-> BuiltinMethod(name),
              def |-> args.kind = BuiltinField(name),
              items |-> IF args.kind = BuiltinField(name) THEN args.items ELSE <<>>]
    IN  IF IsArray(args) THEN o ELSE o @@ [scalar |-> TRUE]

StartsWith(s, p) == Len(s) >= Len(p) /\ SubSeq(s, 1, Len(p)) = p

Contains(s, p) == \E i \in 1..Len(s) : i + Len(p) - 1 <= Len(s) /\ SubSeq(s, i, i + Len(p) - 1) = p

PrefixMatch_Unanchored(name) ==
    Contains(name, P_add) \/ Contains(name, P_update) \/ Contains(name, P_delete)

\* line 106: name.match(/^(add|update|delete)_/)
PrefixMatch(name) ==
    StartsWith(name, P_add) \/ StartsWith(name, P_update) \/ StartsWith(name, P_delete)

MessageField_Names(name) ==
    CASE name \in {T_add_nodes, T_update_nodes} -> "nodes"
      [] name \in {T_add_edges, T_update_edges} -> "edges"
      [] name \in {T_delete_nodes, T_open_nodes} -> "names"
      [] OTHER -> "none"

\* lines 30-100: the fields the success message reads after the store returned
MessageField(name) ==
    CASE name \in {T_add_nodes, T_update_nodes} -> "nodes"
      [] name \in {T_add_edges, T_update_edges} -> "edges"
      [] name = T_delete_nodes -> "nodeNames"
      [] name = T_open_nodes -> "names"
      [] OTHER -> "none"

\* lines 65, 100: the messages built with .join(', ')
JoinedNames == {T_delete_nodes, T_open_nodes}

\* args.nodes.length, args.nodeNames.join(...): a TypeError on an undefined
\* field, and for join on a value that is not an array
MessageThrows(name, args) ==
    /\ MessageField(name) # "none"
    /\ \/ args.kind # MessageField(name)
       \/ ~IsArray(args) /\ name \in JoinedNames

\* line 30: `Successfully added ${args.nodes.length} nodes`
ReportedAdded(args) == Len(args.items)

\* line 100: `Successfully opened nodes: ${args.names.join(', ')}`
ReportedOpened(args) == Range(args.items)

Success == [kind |-> "success", error |-> ""]
ErrorEnvelope(e) == [kind |-> "error", error |-> e]
Rejected(e) == [kind |-> "thrown", error |-> e]
NoResponse == [kind |-> "none", error |-> ""]

\* what a compiled handler that succeeded resolves to
ToolResult == [kind |-> "data", error |-> ""]

IsFormattedError_Never(r) == FALSE

\* line 109: toolResult.toolResult && toolResult.toolResult.isError
IsFormattedError(r) == r.kind = "error"

\* lines 107-117: an error envelope is returned as it is, anything else is
\* wrapped in the response "Successfully executed tool"
FromCompiled(toolResult) == IF IsFormattedError(toolResult) THEN toolResult ELSE Success

Awaited_NotAwaited(p) == p \in {"called", "inStore", "stored", "done"}

\* lines 29-99: await knowledgeGraphManager.<method>(...): the handler goes on
\* only when the store method has settled
Awaited(p) == p = "stored"

\* the awaited method rejected
Raised(out) == out \notin {"", "ok"}

CatchAll_Success(e) == Success

\* lines 126-135: catch (error) -> formatToolError
CatchAll(e) == ErrorEnvelope(e)

(***************************************************************************)
(* REGISTRY OF COMPILED TOOLS (src/src/tools/registry/dynamicTools.ts)     *)
(***************************************************************************)
NullRegistry == [id |-> 0, tools |-> {}]

ManagerReady_Always(init, reg) == TRUE

\* lines 50, 64, 92: this.initialized && this.registry
ManagerReady(init, reg) == init /\ reg # NullRegistry

AlreadyInitialized_Never(init) == FALSE

\* line 33: if (this.initialized) return
AlreadyInitialized(init) == init

\* src/unnamed/part_000: the required properties of add_npc
NpcRequired == {"name", "role", "status", "currentLocation", "description"}

\* the tools compiled from one schema document add_<type>
CompiledTools == {T_add_npc, T_update_npc, T_delete_npc, T_add_quest, T_add_location}

LocatedIn(item) ==
    IF item.currentLocation = Absent THEN <<>>
    ELSE <<[from |-> item.name, to |-> item.currentLocation, edgeType |-> "located_in"]>>

(***************************************************************************)
(* SCHEMA DOCUMENTS.  A property is [field, label, type, required, enum,   *)
(* edgeType]: label is the field capitalized, enum is empty when the       *)
(* property has none, edgeType is "" when it carries no relationship.      *)
(***************************************************************************)
Prop(f, l, t, r, e, rel) ==
    [field |-> f, label |-> l, type |-> t, required |-> r, enum |-> e, edgeType |-> rel]

QuestStatuses == {"Active", "Completed", "Failed"}

QuestSchema_TaggedNPCs ==
    <<Prop("name", "Name", "string", TRUE, {}, ""),
      Prop("description", "Description", "string", TRUE, {}, ""),
      Prop("status", "Status", "string", TRUE, QuestStatuses, ""),
      Prop("objectives", "Objectives", "array", TRUE, {}, ""),
      Prop("rewards", "Rewards", "array", TRUE, {}, ""),
      Prop("relatedCharacters", "RelatedCharacters", "array", FALSE, {}, ""),
      Prop("relatedNPCs", "RelatedNPCs", "array", FALSE, {}, "involves"),
      Prop("relatedLocations", "RelatedLocations", "array", FALSE, {}, "")>>

\* src/src/data/schemas/quest.schema.json: no property carries a relationship
QuestSchema ==
    <<Prop("name", "Name", "string", TRUE, {}, ""),
      Prop("description", "Description", "string", TRUE, {}, ""),
      Prop("status", "Status", "string", TRUE, QuestStatuses, ""),
      Prop("objectives", "Objectives", "array", TRUE, {}, ""),
      Prop("rewards", "Rewards", "array", TRUE, {}, ""),
      Prop("relatedCharacters", "RelatedCharacters", "array", FALSE, {}, ""),
      Prop("relatedNPCs", "RelatedNPCs", "array", FALSE, {}, ""),
      Prop("relatedLocations", "RelatedLocations", "array", FALSE, {}, "")>>

\* src/unnamed/part_000: add_npc
NpcSchema ==
    <<Prop("name", "Name", "string", TRUE, {}, ""),
      Prop("role", "Role", "string", TRUE, {}, ""),
      Prop("status", "Status", "string", TRUE, {}, ""),
      Prop("currentLocation", "CurrentLocation", "string", TRUE, {}, "located_in"),
      Prop("description", "Description", "string", TRUE, {}, ""),
      Prop("gender", "Gender", "string", FALSE, {}, ""),
      Prop("race", "Race", "string", FALSE, {}, ""),
      Prop("background", "Background", "string", FALSE, {}, ""),
      Prop("secret", "Secret", "string", FALSE, {}, ""),
      Prop("origin", "Origin", "string", FALSE, {}, "originates_from"),
      Prop("traits", "Traits", "array", FALSE, {}, ""),
      Prop("abilities", "Abilities", "array", FALSE, {}, ""),
      Prop("importance", "Importance", "string", FALSE, {}, ""),
      Prop("reputation", "Reputation", "string", FALSE, {}, ""),
      Prop("money", "Money", "string", FALSE, {}, ""),
      Prop("alignment", "Alignment", "string", FALSE, {}, ""),
      Prop("motivation", "Motivation", "string", FALSE, {}, "")>>

\* src/src/data/schemas/location.schema.json: add_location
LocationSchema ==
    <<Prop("name", "Name", "string", TRUE, {}, ""),
      Prop("type", "Type", "string", TRUE, {}, ""),
      Prop("description", "Description", "string", TRUE, {}, ""),
      Prop("status", "Status", "string", TRUE, {}, ""),
      Prop("parentLocation", "ParentLocation", "string", FALSE, {}, ""),
      Prop("atmosphere", "Atmosphere", "string", FALSE, {}, ""),
      Prop("accessibility", "Accessibility", "string", FALSE, {}, ""),
      Prop("size", "Size", "string", FALSE, {}, ""),
      Prop("dangerLevel", "DangerLevel", "string", FALSE, {}, ""),
      Prop("notableFeatures", "NotableFeatures", "array", FALSE, {}, ""),
      Prop("subLocations", "SubLocations", "array", FALSE, {}, "contains"),
      Prop("relatedCharacters", "RelatedCharacters", "array", FALSE, {}, "present_in"),
      Prop("relatedQuests", "RelatedQuests", "array", FALSE, {}, "takes_place_in"),
      Prop("relatedArtifacts", "RelatedArtifacts", "array", FALSE, {}, "located_at")>>

\* the schema document a compiled add_<type> tool comes from, and its type
SchemaOf(name) ==
    CASE name = T_add_quest -> [nodeType |-> "quest", props |-> QuestSchema]
      [] name = T_add_npc -> [nodeType |-> "npc", props |-> NpcSchema]
      [] name = T_add_location -> [nodeType |-> "location", props |-> LocationSchema]

(***************************************************************************)
(* TOOL COMPILER (specification, section 4.1).  The arguments of a         *)
(* compiled tool are a function from the supplied fields to values         *)
(* [t, v]: t is the JSON type, v the string (a sequence of one) or the     *)
(* elements of the array.                                                  *)
(***************************************************************************)
Str(s) == [t |-> "string", v |-> <<s>>]
Arr(a) == [t |-> "array", v |-> a]
Num(s) == [t |-> "number", v |-> <<s>>]

Supplied(a, f) == f \in DOMAIN a

\* the property is violated by the arguments: missing, mistyped, or outside
\* its enum
Violates(p, a) ==
    IF ~Supplied(a, p.field) THEN p.required
    ELSE \/ a[p.field].t # p.type
         \/ p.enum # {} /\ a[p.field].v[1] \notin p.enum

\* "validates all required fields present and typed; any violation fails
\* the whole call"
HasViolation(props, a) == \E i \in 1..Len(props) : Violates(props[i], a)

RECURSIVE Join(_)
\* arrays joined with ", "
Join(v) ==
    IF v = <<>> THEN ""
    ELSE IF Len(v) = 1 THEN v[1]
    ELSE v[1] \o ", " \o Join(Tail(v))

IsMetadataField(p, a) ==
    p.edgeType = "" /\ p.field # "name" /\ Supplied(a, p.field)

IsRelationshipField(p, a) == p.edgeType # "" /\ Supplied(a, p.field)

RECURSIVE MetadataLines(_, _)
\* "<CapitalizedField>: <value>" per metadata field, in schema order
MetadataLines(props, a) ==
    IF props = <<>> THEN <<>>
    ELSE (IF IsMetadataField(Head(props), a)
          THEN <<Head(props).label \o ": " \o Join(a[Head(props).field].v)>>
          ELSE <<>>)
         \o MetadataLines(Tail(props), a)

\* one edge per scalar value; arrays fan out to one edge per element
EdgesOf(name, p, v) ==
    [i \in 1..Len(v) |-> [from |-> name, to |-> v[i], edgeType |-> p.edgeType]]

RECURSIVE RelationshipEdges(_, _, _)
RelationshipEdges(name, props, a) ==
    IF props = <<>> THEN <<>>
    ELSE (IF IsRelationshipField(Head(props), a)
          THEN EdgesOf(name, Head(props), a[Head(props).field].v)
          ELSE <<>>)
         \o RelationshipEdges(name, Tail(props), a)

\* the compiled add_<type> handler: validation, then the node and its
\* relationship edges as one store operation
CompiledAdd(schema, a) ==
    IF HasViolation(schema.props, a)
    THEN [threw |-> TRUE, error |-> "ValidationError", op |-> NoOp]
    ELSE [threw |-> FALSE, error |-> "",
          op |-> [method |-> "addSchemaNode", def |-> TRUE,
                  items |-> <<[node |-> [name |-> a.name.v[1],
                                         nodeType |-> schema.nodeType,
                                         metadata |-> MetadataLines(schema.props, a)],
                               edges |-> RelationshipEdges(a.name.v[1], schema.props, a)]>>]]

\* registry.handleToolCall: the validation of the arguments and the store
\* operation the compiled handler asks for (specification, section 4.1)
CompiledOp(reg, name, args) ==
    IF name \notin reg.tools THEN [threw |-> TRUE, error |-> "UnknownToolError", op |-> NoOp]
    ELSE IF args.kind = "fields" THEN CompiledAdd(SchemaOf(name), args.items[1])
    ELSE IF name = T_add_quest THEN
        IF args.kind # "quest"
        THEN [threw |-> TRUE, error |-> "ValidationError", op |-> NoOp]
        ELSE [threw |-> FALSE, error |-> "",
              op |-> [method |-> "addSchemaNode", def |-> TRUE,
                      items |-> <<[node |-> [name |-> args.items[1].name,
                                             nodeType |-> "quest",
                                             metadata |-> <<"Status: Active">>],
                                   edges |-> <<>>]>>]]
    ELSE IF args.kind # "npc"
        THEN [threw |-> TRUE, error |-> "ValidationError", op |-> NoOp]
    ELSE IF name = T_add_npc THEN
        IF "currentLocation" \in NpcRequired /\ args.items[1].currentLocation = Absent
        THEN [threw |-> TRUE, error |-> "ValidationError", op |-> NoOp]
        ELSE [threw |-> FALSE, error |-> "",
              op |-> [method |-> "addSchemaNode", def |-> TRUE,
                      items |-> <<[node |-> [name |-> args.items[1].name,
                                             nodeType |-> "npc",
                                             metadata |-> <<StatusLine>>],
                                   edges |-> LocatedIn(args.items[1])]>>]]
    ELSE IF name = T_update_npc THEN
        [threw |-> FALSE, error |-> "",
         op |-> [method |-> "updateSchemaNode", def |-> TRUE,
                 items |-> <<[name |-> args.items[1].name,
                              lines |-> <<StatusLine>>,
                              edgeType |-> "located_in",
                              edges |-> LocatedIn(args.items[1])]>>]]
    ELSE [threw |-> FALSE, error |-> "",
          op |-> [method |-> "deleteNodes", def |-> TRUE,
                  items |-> <<args.items[1].name>>]]

(***************************************************************************)
(* STATE                                                                   *)
(***************************************************************************)
VARIABLES
    nodes,        \* Graph Store: the nodes in memory
    edges,        \* Graph Store: the edges in memory
    file,         \* the backing file, one record per line
    lock,         \* the call inside the store's critical section, or 0
    initialized,  \* DynamicToolManager.initialized
    registry,     \* DynamicToolManager.registry
    loads,        \* how many times initializeDynamicTools() has been called
    initSt,       \* per caller of initialize(): [pc, load]
    listed,       \* the result of the last getTools() / isDynamicTool()
    pc,           \* per tool call: idle, called, inStore, stored, done
    req,          \* per tool call: the request
    op,           \* per tool call: the store operation asked for
    resp,         \* per tool call: what handleCallToolRequest returned
    direct,       \* per tool call: the store method the switch called
    dynamic,      \* per tool call: passed to dynamicTools.handleToolCall
    snap,         \* per tool call: the graph its store operation read
    outcome,      \* per tool call: "", "ok", or the failure the store raised
    before,       \* per tool call: the graph and the file as the call found them
    memory,       \* dist/data/memory.json as importer and explorer see it: its lines
    extracted,    \* importer: what processVigVaultFiles() returned last
    vault,        \* importer: the markdown files of the last run
    session,      \* explorer: the last line or command line it was given
    loaded,       \* explorer: the result of loadGraph()
    found         \* explorer: the last findNodes() call and its result

graphVars == <<nodes, edges, file>>
initVars == <<initialized, registry, loads, initSt, listed>>
callVars == <<pc, req, op, resp, direct, dynamic, snap, outcome, before>>
toolVars == <<memory, extracted, vault, session, loaded, found>>
serverVars == <<graphVars, lock, initVars, callVars>>
vars == <<nodes, edges, file, lock, initialized, registry, loads, initSt, listed,
          pc, req, op, resp, direct, dynamic, snap, outcome, before,
          memory, extracted, vault, session, loaded, found>>

Calls == {1, 2}
InitCallers == {1, 2}

Graph == [nodes |-> nodes, edges |-> edges]

NoRequest == [hasParams |-> TRUE, name |-> <<>>, args |-> Undefined]
NotListed == [op |-> "none", threw |-> FALSE, tools |-> {}, answer |-> FALSE]

(***************************************************************************)
(* The backing file: one record per line, tagged node or edge              *)
(* (src/src/buildKnowledgeGraph.js 26-42, src/src/queryGraph.js 18-36).    *)
(***************************************************************************)
Lines(g) ==
    [i \in 1..Len(g.nodes) |-> [type |-> "node", rec |-> g.nodes[i]]]
    \o [i \in 1..Len(g.edges) |-> [type |-> "edge", rec |-> g.edges[i]]]

Records(lines, t) ==
    LET sel == SelectSeq(lines, LAMBDA l : l.type = t)
    IN  [i \in 1..Len(sel) |-> sel[i].rec]

SaveGraph_Skip(old, g) == old

\* the file is rewritten in full from the graph
SaveGraph(old, g) == Lines(g)

LockFree_Always(l) == TRUE

\* section 5: mutating operations are critical sections
LockFree(l) == l = 0

WithinBounds(o, g) ==
    LET r == StoreApply(o, g)
    IN  Len(r.g.nodes) <= MaxNodes /\ Len(r.g.edges) <= MaxEdges

NotExtracted == [nodes |-> <<>>, relationships |-> <<>>]
NotLoaded == [status |-> "none", items |-> <<>>]
NoSession == [mode |-> "none", input |-> <<>>, did |-> "none"]
NotAsked == [asked |-> FALSE, query |-> <<>>, nodes |-> <<>>]

Untouched == [nodes |-> <<>>, edges |-> <<>>, file |-> <<>>]

\* the server as constructed
InitServer ==
    /\ nodes = <<>>
    /\ edges = <<>>
    /\ file = <<>>
    /\ lock = 0
    /\ initialized = FALSE
    /\ registry = NullRegistry
    /\ loads = 0
    /\ initSt = [i \in InitCallers |-> [pc |-> "idle", load |-> 0]]
    /\ listed = NotListed
    /\ pc = [c \in Calls |-> "idle"]
    /\ req = [c \in Calls |-> NoRequest]
    /\ op = [c \in Calls |-> NoOp]
    /\ resp = [c \in Calls |-> NoResponse]
    /\ direct = [c \in Calls |-> "none"]
    /\ dynamic = [c \in Calls |-> FALSE]
    /\ snap = [c \in Calls |-> EmptyGraph]
    /\ outcome = [c \in Calls |-> ""]
    /\ before = [c \in Calls |-> Untouched]

Init ==
    /\ InitServer
    /\ memory = <<>>
    /\ extracted = NotExtracted
    /\ vault = <<>>
    /\ session = NoSession
    /\ loaded = NotLoaded
    /\ found = NotAsked

(***************************************************************************)
(* handleCallToolRequest, up to its first await                            *)
(***************************************************************************)
\* the call returns (or rejects) without reaching the store
Finish(c, r, d) ==
    /\ pc' = [pc EXCEPT ![c] = "done"]
    /\ resp' = [resp EXCEPT ![c] = r]
    /\ dynamic' = [dynamic EXCEPT ![c] = d]
    /\ UNCHANGED <<op, direct>>

\* the call invokes a store method and awaits it
Invoke(c, o, m, d) ==
    /\ WithinBounds(o, Graph)
    /\ pc' = [pc EXCEPT ![c] = "called"]
    /\ op' = [op EXCEPT ![c] = o]
    /\ direct' = [direct EXCEPT ![c] = m]
    /\ dynamic' = [dynamic EXCEPT ![c] = d]
    /\ UNCHANGED resp

Dispatch(c, r) ==
    /\ pc[c] = "idle"
    /\ req' = [req EXCEPT ![c] = r]
    /\ before' = [before EXCEPT ![c] = [nodes |-> nodes, edges |-> edges, file |-> file]]
    /\ IF ~r.hasParams
       THEN \* line 14: destructuring request.params, outside the try
            Finish(c, Rejected("TypeError"), FALSE)
       ELSE IF ArgsMissing(r.args)
       THEN Finish(c, ErrorEnvelope("No arguments provided"), FALSE)
       ELSE IF BuiltinMethod(r.name) # "none"
       THEN Invoke(c, BuiltinOp(r.name, r.args), BuiltinMethod(r.name), FALSE)
       ELSE IF PrefixMatch(r.name)
       THEN \* line 107: dynamicTools.handleToolCall
            IF ~ManagerReady(initialized, registry)
            THEN Finish(c, FromCompiled(ErrorEnvelope("Dynamic tools not initialized")), TRUE)
            ELSE LET co == CompiledOp(registry, r.name, r.args)
                 IN  IF co.threw
                     THEN Finish(c, FromCompiled(ErrorEnvelope(co.error)), TRUE)
                     ELSE Invoke(c, co.op, "none", TRUE)
       ELSE Finish(c, ErrorEnvelope("Unknown tool"), FALSE)
    /\ UNCHANGED <<graphVars, lock, initVars, snap, outcome, toolVars>>

(***************************************************************************)
(* The store method the call awaits                                        *)
(***************************************************************************)
\* a mutating method enters the critical section and reads the graph
Enter(c) ==
    /\ pc[c] = "called"
    /\ op[c].method \notin ReadMethods
    /\ LockFree(lock)
    /\ WithinBounds(op[c], Graph)
    /\ lock' = c
    /\ snap' = [snap EXCEPT ![c] = Graph]
    /\ pc' = [pc EXCEPT ![c] = "inStore"]
    /\ UNCHANGED <<graphVars, initVars, req, op, resp, direct, dynamic, outcome, before, toolVars>>

\* it rewrites the file and, the write confirmed, advances the memory; a
\* failed write raises and leaves both as they were
Commit(c) ==
    /\ pc[c] = "inStore"
    /\ LET r == StoreApply(op[c], snap[c])
       IN  \E written \in BOOLEAN :
             IF r.threw
             THEN /\ written
                  /\ outcome' = [outcome EXCEPT ![c] = r.error]
                  /\ UNCHANGED graphVars
             ELSE IF written
             THEN /\ file' = SaveGraph(file, r.g)
                  /\ nodes' = r.g.nodes
                  /\ edges' = r.g.edges
                  /\ outcome' = [outcome EXCEPT ![c] = "ok"]
             ELSE /\ outcome' = [outcome EXCEPT ![c] = "PersistenceError"]
                  /\ UNCHANGED graphVars
    /\ lock' = 0
    /\ snap' = [snap EXCEPT ![c] = EmptyGraph]
    /\ pc' = [pc EXCEPT ![c] = "stored"]
    /\ UNCHANGED <<initVars, req, op, resp, direct, dynamic, before, toolVars>>

\* readGraph, searchNodes, openNodes read a snapshot and take no lock
Read(c) ==
    /\ pc[c] = "called"
    /\ op[c].method \in ReadMethods
    /\ LET r == StoreApply(op[c], Graph)
       IN  outcome' = [outcome EXCEPT ![c] = IF r.threw THEN r.error ELSE "ok"]
    /\ pc' = [pc EXCEPT ![c] = "stored"]
    /\ UNCHANGED <<graphVars, lock, initVars, req, op, resp, direct, dynamic, snap, before, toolVars>>

(***************************************************************************)
(* handleCallToolRequest after the await: the response                     *)
(***************************************************************************)
Respond(c) ==
    /\ pc[c] \notin {"idle", "done"}
    /\ Awaited(pc[c])
    /\ resp' = [resp EXCEPT ![c] =
          IF dynamic[c]
          THEN \* dynamicTools.ts 72-85, then callToolHandler.js 109-116
               FromCompiled(IF Raised(outcome[c]) THEN ErrorEnvelope(outcome[c])
                            ELSE ToolResult)
          ELSE IF Raised(outcome[c]) THEN CatchAll(outcome[c])
          ELSE IF MessageThrows(req[c].name, req[c].args) THEN CatchAll("TypeError")
          ELSE Success]
    /\ pc' = [pc EXCEPT ![c] = "done"]
    /\ UNCHANGED <<graphVars, lock, initVars, req, op, direct, dynamic, snap, outcome, before, toolVars>>

\* the caller takes the response; the slot is free for the next call
Return(c) ==
    /\ pc[c] = "done"
    /\ pc' = [pc EXCEPT ![c] = "idle"]
    /\ req' = [req EXCEPT ![c] = NoRequest]
    /\ op' = [op EXCEPT ![c] = NoOp]
    /\ resp' = [resp EXCEPT ![c] = NoResponse]
    /\ direct' = [direct EXCEPT ![c] = "none"]
    /\ dynamic' = [dynamic EXCEPT ![c] = FALSE]
    /\ outcome' = [outcome EXCEPT ![c] = ""]
    /\ before' = [before EXCEPT ![c] = Untouched]
    /\ UNCHANGED <<graphVars, lock, initVars, snap, toolVars>>

(***************************************************************************)
(* DynamicToolManager (src/src/tools/registry/dynamicTools.ts)             *)
(***************************************************************************)
\* lines 32-38: initialize() up to the await of initializeDynamicTools()
InitializeCall(i) ==
    /\ initSt[i].pc = "idle"
    /\ IF AlreadyInitialized(initialized)
       THEN /\ initSt' = [initSt EXCEPT ![i] = [pc |-> "returning", load |-> 0]]
            /\ UNCHANGED loads
       ELSE /\ loads < MaxLoads
            /\ loads' = loads + 1
            /\ initSt' = [initSt EXCEPT ![i] = [pc |-> "loading", load |-> loads + 1]]
    /\ UNCHANGED <<graphVars, lock, initialized, registry, listed, callVars, toolVars>>

\* lines 38-39: the load resolved
InitializeLoaded(i, tools) ==
    /\ initSt[i].pc = "loading"
    /\ registry' = [id |-> initSt[i].load, tools |-> tools]
    /\ initialized' = TRUE
    /\ initSt' = [initSt EXCEPT ![i] = [pc |-> "idle", load |-> 0]]
    /\ UNCHANGED <<graphVars, lock, loads, listed, callVars, toolVars>>

\* lines 40-43: the load rejected; initialize() throws
InitializeFailed(i) ==
    /\ initSt[i].pc = "loading"
    /\ initSt' = [initSt EXCEPT ![i] = [pc |-> "idle", load |-> 0]]
    /\ UNCHANGED <<graphVars, lock, initialized, registry, loads, listed, callVars, toolVars>>

\* line 34: return
InitializeReturn(i) ==
    /\ initSt[i].pc = "returning"
    /\ initSt' = [initSt EXCEPT ![i] = [pc |-> "idle", load |-> 0]]
    /\ UNCHANGED <<graphVars, lock, initialized, registry, loads, listed, callVars, toolVars>>

\* lines 49-54
GetTools ==
    /\ listed' = IF ManagerReady(initialized, registry)
                 THEN [op |-> "getTools", threw |-> FALSE,
                       tools |-> registry.tools, answer |-> FALSE]
                 ELSE [op |-> "getTools", threw |-> TRUE, tools |-> {}, answer |-> FALSE]
    /\ UNCHANGED <<graphVars, lock, initialized, registry, loads, initSt, callVars, toolVars>>

\* lines 91-96
IsDynamicTool(name) ==
    /\ listed' = [op |-> "isDynamicTool", threw |-> FALSE, tools |-> {},
                  answer |-> ManagerReady(initialized, registry)
                             /\ name \in registry.tools]
    /\ UNCHANGED <<graphVars, lock, initialized, registry, loads, initSt, callVars, toolVars>>

(***************************************************************************)
(* STRINGS, as the explorer handles them (src/src/queryGraph.js)           *)
(***************************************************************************)
\* String.prototype.toLowerCase, over the letters the model writes
LowerChar(c) ==
    CASE c = "A" -> "a" [] c = "C" -> "c" [] c = "G" -> "g" [] c = "I" -> "i"
      [] c = "N" -> "n" [] c = "P" -> "p" [] c = "S" -> "s" [] c = "T" -> "t"
      [] c = "Y" -> "y" [] c = "E" -> "e" [] c = "O" -> "o" [] c = "K" -> "k"
      [] OTHER -> c

RECURSIVE ToLowerCase(_)
ToLowerCase(s) ==
    IF s = "" THEN "" ELSE LowerChar(SubSeq(s, 1, 1)) \o ToLowerCase(SubSeq(s, 2, Len(s)))

RECURSIVE Trim(_)
\* String.prototype.trim
Trim(s) ==
    IF s = "" THEN ""
    ELSE IF SubSeq(s, 1, 1) = " " THEN Trim(SubSeq(s, 2, Len(s)))
    ELSE IF SubSeq(s, Len(s), Len(s)) = " " THEN Trim(SubSeq(s, 1, Len(s) - 1))
    ELSE s

\* String.prototype.includes
Includes(s, sub) == \E i \in 0..(Len(s) - Len(sub)) : SubSeq(s, i + 1, i + Len(sub)) = sub

RECURSIVE Split(_, _)
\* String.prototype.split, on a separator of one character
Split(s, sep) ==
    IF ~Includes(s, sep) THEN <<s>>
    ELSE LET i == CHOOSE k \in 1..Len(s) :
                     /\ SubSeq(s, k, k) = sep
                     /\ \A j \in 1..(k - 1) : SubSeq(s, j, j) # sep
         IN  <<SubSeq(s, 1, i - 1)>> \o Split(SubSeq(s, i + 1, Len(s)), sep)

(***************************************************************************)
(* THE MEMORY FILE as text.  A line is [text, obj]: the text of an object  *)
(* (obj, a function from its keys), a blank line, or text that is not      *)
(* JSON.  The variable memory holds the lines content.split('\n') yields;  *)
(* no line at all stands for a file that does not exist.                   *)
(***************************************************************************)
\* the records of the file: a node and an edge
NodeRecord(n, t, md) == [name |-> n, nodeType |-> t, metadata |-> md]
EdgeRecord(f, t, et) == [from |-> f, to |-> t, edgeType |-> et]

NoObject == [x \in {} |-> ""]
ObjectLine(o) == [text |-> "object", obj |-> o]
BlankLine == [text |-> "blank", obj |-> NoObject]
GarbageLine == [text |-> "garbage", obj |-> NoObject]

\* {type: t, ...record}: the keys of the record come after and win
Tagged(t, record) == record @@ [type |-> t]

\* JSON.stringify of an object
Stringify(o) == ObjectLine(o)

\* lines.join('\n') written, then read and split('\n'): no line gives the
\* empty text, which splits into one empty line
WriteLines(lines) == IF lines = <<>> THEN <<BlankLine>> ELSE lines

\* line.trim() !== ''
NotBlank_All(line) == TRUE

NotBlank(line) == line.text # "blank"

\* JSON.parse succeeds
Parses(line) == line.text = "object"

\* src/src/queryGraph.js 18-27: the parsed lines, or the exit of the process
\* when the file cannot be read or a line does not parse
loadGraph(content) ==
    LET lines == SelectSeq(content, NotBlank)
    IN  IF content = <<>> \/ \E i \in 1..Len(lines) : ~Parses(lines[i])
        THEN [status |-> "exit", items |-> <<>>]
        ELSE [status |-> "ok", items |-> [i \in 1..Len(lines) |-> lines[i].obj]]

(***************************************************************************)
(* findNodes (src/src/queryGraph.js 35-82)                                 *)
(***************************************************************************)
IsA(item, t) == "type" \in DOMAIN item /\ item.type = t

\* the first two parts of the query split at ':', trimmed and lowercased
QueryParts(query) ==
    LET parts == Split(query, ":")
    IN  [field |-> ToLowerCase(Trim(parts[1])), value |-> ToLowerCase(Trim(parts[2]))]

\* line 46: field === 'type' || field === 'nodetype'
TypeFields == {"type", "nodetype"}

SameType_Exact(nodeType, value) == nodeType = value

\* line 48: node.nodeType.toLowerCase() === value
SameType(nodeType, value) == ToLowerCase(nodeType) = value

SameTag_Exact(to, value) == to = value

\* line 57: item.to.toLowerCase() === value
SameTag(to, value) == ToLowerCase(to) = value

\* lines 54-61: the nodes that are the from of a tagged_with edge to the tag
TaggedNames(graph, value) ==
    {graph[i].from : i \in {j \in 1..Len(graph) :
                              /\ IsA(graph[j], "edge")
                              /\ graph[j].edgeType = "tagged_with"
                              /\ SameTag(graph[j].to, value)}}

GeneralMatch_NameOnly(node, queryLower) ==
    node.name # "" /\ Includes(ToLowerCase(node.name), queryLower)

\* lines 67-81: the name, or some metadata entry, holds the lowercased query
GeneralMatch(node, queryLower) ==
    \/ node.name # "" /\ Includes(ToLowerCase(node.name), queryLower)
    \/ \E k \in 1..Len(node.metadata) : Includes(ToLowerCase(node.metadata[k]), queryLower)

findNodes(graph, query) ==
    LET ns == SelectSeq(graph, LAMBDA item : IsA(item, "node"))
        q == QueryParts(query)
    IN  IF query = "" THEN ns
        ELSE IF Includes(query, ":") /\ q.field \in TypeFields
        THEN SelectSeq(ns, LAMBDA n : n.nodeType # "" /\ SameType(n.nodeType, q.value))
        ELSE IF Includes(query, ":") /\ q.field = "tag"
        THEN SelectSeq(ns, LAMBDA n : n.name \in TaggedNames(graph, q.value))
        ELSE SelectSeq(ns, LAMBDA n : GeneralMatch(n, ToLowerCase(query)))

(***************************************************************************)
(* The explorer (src/src/queryGraph.js): it loads the file, then answers   *)
(* searches over the graph it loaded.                                      *)
(***************************************************************************)
\* interactiveMode / command-line mode: const graph = loadGraph()
LoadGraph ==
    /\ loaded.status = "none"
    /\ loaded' = loadGraph(memory)
    /\ UNCHANGED <<serverVars, memory, extracted, vault, session, found>>

\* const nodes = findNodes(graph, input)
FindNodes(query) ==
    /\ loaded.status = "ok"
    /\ found' = [asked |-> TRUE, query |-> query, nodes |-> findNodes(loaded.items, query)]
    /\ session' = [mode |-> "call", input |-> query, did |-> "search"]
    /\ UNCHANGED <<serverVars, memory, extracted, vault, loaded>>

\* lines 153-212: what the line handler takes the trimmed line for
Command(input) ==
    IF input \in {"exit", "quit"} THEN "exit"
    ELSE IF input = "help" THEN "help"
    ELSE IF input = "stats" THEN "stats"
    ELSE IF StartsWith(input, "node ") THEN "node"
    ELSE "search"

\* lines 150-236: readline.on('line'), one line typed in interactive mode;
\* after exit the process is gone
Interactive(line) ==
    /\ loaded.status = "ok"
    /\ ~(session.mode = "interactive" /\ session.did = "exit")
    /\ LET input == Trim(line)
       IN  /\ session' = [mode |-> "interactive", input |-> line, did |-> Command(input)]
           /\ found' = IF Command(input) = "search"
                        THEN [asked |-> TRUE, query |-> input,
                              nodes |-> findNodes(loaded.items, input)]
                        ELSE found
    /\ UNCHANGED <<serverVars, memory, extracted, vault, loaded>>

RECURSIVE JoinWords(_)
\* args.slice(1).join(' ')
JoinWords(v) ==
    IF v = <<>> THEN ""
    ELSE IF Len(v) = 1 THEN v[1]
    ELSE v[1] \o " " \o JoinWords(Tail(v))

\* lines 255-258: the query of the command line search mode
CommandLineQuery(args) == JoinWords(Tail(args))

\* lines 251-285: what the command line asks for
CommandLineMode(args) ==
    IF args = <<>> THEN "interactive"
    ELSE IF args[1] = "search" /\ Len(args) > 1 THEN "search"
    ELSE IF args[1] = "node" /\ Len(args) > 1 THEN "node"
    ELSE "usage"

\* lines 248-285: one run of the explorer with arguments; the search and
\* node modes load the graph themselves
CommandLine(args) ==
    /\ CommandLineMode(args) # "interactive"
    /\ session' = [mode |-> "cli", input |-> args, did |-> CommandLineMode(args)]
    /\ loaded' = IF CommandLineMode(args) = "usage" THEN loaded ELSE loadGraph(memory)
    /\ found' = IF CommandLineMode(args) = "search" /\ loadGraph(memory).status = "ok"
                 THEN [asked |-> TRUE, query |-> CommandLineQuery(args),
                       nodes |-> findNodes(loadGraph(memory).items, CommandLineQuery(args))]
                 ELSE found
    /\ UNCHANGED <<serverVars, memory, extracted, vault>>

(***************************************************************************)
(* THE IMPORTER (src/src/VigVaultParser.js, src/src/buildKnowledgeGraph.js)*)
(* A markdown file of the vault is [dir, name, readable, status, tags,     *)
(* topics, related, up]: its directory, its base name, whether it can be   *)
(* read, and the status, tags, in, related and up of its front matter.     *)
(***************************************************************************)
RECURSIVE RemoveBrackets(_)
\* related.replace(/[\[\]]/g, '')
RemoveBrackets(s) ==
    IF s = "" THEN ""
    ELSE (IF SubSeq(s, 1, 1) \in {"[", "]"} THEN "" ELSE SubSeq(s, 1, 1))
         \o RemoveBrackets(SubSeq(s, 2, Len(s)))

\* tag.startsWith('#') ? tag.substring(1) : tag
TagName(tag) == IF Len(tag) >= 1 /\ SubSeq(tag, 1, 1) = "#" THEN SubSeq(tag, 2, Len(tag)) ELSE tag

\* lines 51-56: the node type, from the directory and the tags
NodeTypeOf(f) ==
    IF f.dir = "Projects" THEN "project"
    ELSE IF "#idea" \in Range(f.tags) THEN "idea"
    ELSE "knowledge"

\* lines 66-75: the metadata lines the front matter gives (the files of
\* the model state no created, year or encountered)
MetadataOf(f) ==
    (IF f.status # "" THEN <<"Status: " \o f.status>> ELSE <<>>)
    \o (IF f.tags # <<>> THEN <<"Tags: " \o Join(f.tags)>> ELSE <<>>)
    \o (IF f.topics # <<>> THEN <<"Topics: " \o Join(f.topics)>> ELSE <<>>)

\* lines 78-128: the relationships, in the order related, in, tags, up
RelationshipsOf(f) ==
    [i \in 1..Len(f.related) |-> EdgeRecord(f.name, RemoveBrackets(f.related[i]), "related_to")]
    \o [i \in 1..Len(f.topics) |-> EdgeRecord(f.name, f.topics[i], "belongs_to_topic")]
    \o [i \in 1..Len(f.tags) |-> EdgeRecord(f.name, TagName(f.tags[i]), "tagged_with")]
    \o [i \in 1..Len(f.up) |-> EdgeRecord(f.name, RemoveBrackets(f.up[i]), "part_of")]

\* line 46: the file cannot be read; line 108: tag.startsWith is not a
\* function when the YAML value of a tag is a number
Throws(f) == ~f.readable \/ f.numbers # {}

\* lines 44-135: a file whose processing throws gives no node (131-134)
extractNodeFromFile(f) ==
    IF Throws(f) THEN <<>>
    ELSE <<[node |-> NodeRecord(f.name, NodeTypeOf(f), MetadataOf(f)),
            relationships |-> RelationshipsOf(f)]>>

RECURSIVE Distinct(_)
\* new Set(): the values in the order of their first appearance
Distinct(s) ==
    IF s = <<>> THEN <<>>
    ELSE LET rest == Distinct(SubSeq(s, 1, Len(s) - 1))
         IN  IF s[Len(s)] \in Range(rest) THEN rest ELSE Append(rest, s[Len(s)])

RECURSIVE Flatten(_)
Flatten(ss) == IF ss = <<>> THEN <<>> ELSE Head(ss) \o Flatten(Tail(ss))

\* lines 155-159: the tags of a file that reach the Set: all of them, or
\* those before the first one that is not a string, where forEach throws
TagsAdded(f) ==
    IF f.numbers = {} THEN f.tags
    ELSE SubSeq(f.tags, 1, (CHOOSE k \in f.numbers : \A j \in f.numbers : k <= j) - 1)

\* lines 142-187: one topic node per topic, one tag node per tag; the
\* topics of a file are added before its tags are looked at (151-153)
createExtraNodes(files) ==
    LET readable == SelectSeq(files, LAMBDA f : f.readable)
        topics == Distinct(Flatten([i \in 1..Len(readable) |-> readable[i].topics]))
        tags == Distinct(Flatten([i \in 1..Len(readable) |->
                   [k \in 1..Len(TagsAdded(readable[i])) |->
                       TagName(TagsAdded(readable[i])[k])]]))
    IN  [i \in 1..Len(topics) |->
            [node |-> NodeRecord(topics[i], "topic", <<>>), relationships |-> <<>>]]
        \o [i \in 1..Len(tags) |->
            [node |-> NodeRecord(tags[i], "tag", <<>>), relationships |-> <<>>]]

\* lines 193-226
processVigVaultFiles(files) ==
    LET extractedData == Flatten([i \in 1..Len(files) |-> extractNodeFromFile(files[i])])
        allData == extractedData \o createExtraNodes(files)
    IN  [nodes |-> [i \in 1..Len(allData) |-> allData[i].node],
         relationships |-> Flatten([i \in 1..Len(allData) |-> allData[i].relationships])]

\* src/src/buildKnowledgeGraph.js 26-42: the lines of the memory file
jsonLines(out) ==
    [i \in 1..Len(out.nodes) |-> Stringify(Tagged("node", out.nodes[i]))]
    \o [i \in 1..Len(out.relationships) |-> Stringify(Tagged("edge", out.relationships[i]))]

\* src/src/buildKnowledgeGraph.js 18-48
BuildKnowledgeGraph(files) ==
    /\ vault' = files
    /\ extracted' = processVigVaultFiles(files)
    /\ memory' = WriteLines(jsonLines(processVigVaultFiles(files)))
    /\ loaded' = NotLoaded
    /\ found' = NotAsked
    /\ UNCHANGED <<serverVars, session>>

\* the lines of the file change place, before the explorer reads it
RotateLines ==
    /\ loaded.status = "none"
    /\ Len(memory) > 1
    /\ memory' = Tail(memory) \o <<Head(memory)>>
    /\ UNCHANGED <<serverVars, extracted, vault, session, loaded, found>>

ReverseLines ==
    /\ loaded.status = "none"
    /\ Len(memory) > 1
    /\ memory' = [i \in 1..Len(memory) |-> memory[Len(memory) + 1 - i]]
    /\ UNCHANGED <<serverVars, extracted, vault, session, loaded, found>>

(***************************************************************************)
(* Spec: the server handling one operation at a time, a tool call or a     *)
(* call of initialize(), each run to its end before the next begins.       *)
(***************************************************************************)
InitIdle == \A i \in InitCallers : initSt[i].pc = "idle"
CallsIdle == \A c \in Calls : pc[c] = "idle"

Next ==
    \/ \E r \in Requests : InitIdle /\ Dispatch(1, r)
    \/ Enter(1)
    \/ Commit(1)
    \/ Read(1)
    \/ Respond(1)
    \/ Return(1)
    \/ CallsIdle /\ InitializeCall(1)
    \/ InitializeLoaded(1, CompiledTools)
    \/ InitializeReturn(1)

Spec == Init /\ [][Next]_vars

(***************************************************************************)
(* SpecConcurrent: two tool calls dispatched concurrently on the one       *)
(* store, each slot making one mutating call.                              *)
(***************************************************************************)
Req(n, k, items) == [hasParams |-> TRUE, name |-> n, args |-> [kind |-> k, items |-> items]]

ConcurrentRequests ==
    {Req(T_add_nodes, "nodes", <<n>>) : n \in NodeArgs}
    \cup {Req(T_delete_nodes, "nodeNames", <<n>>) : n \in NodeNames}
    \cup {Req(T_add_edges, "edges", <<e>>) : e \in EdgeArgs}
    \cup {Req(T_add_metadata, "metadata", <<m>>) : m \in MetaArgs}

NextConcurrent ==
    \E c \in Calls :
        \/ \E r \in ConcurrentRequests : Dispatch(c, r)
        \/ Enter(c)
        \/ Commit(c)
        \/ Respond(c)

SpecConcurrent == Init /\ [][NextConcurrent]_vars

(***************************************************************************)
(* SpecInit: the registry's life.  Two callers of initialize(), the schema *)
(* load succeeding or failing, the tools listed, and tool calls arriving   *)
(* before, during and after.                                               *)
(***************************************************************************)
ToolSets == {CompiledTools, CompiledTools \ {T_add_quest}}

InitRequests ==
    {Req(T_add_nodes, "nodes", <<[name |-> "Garrick", nodeType |-> "npc", metadata |-> <<>>]>>),
     Req(T_add_nodes, "undefined", <<>>),
     Req(T_read_graph, "empty", <<>>),
     Req(T_add_npc, "npc", <<[name |-> "Garrick", currentLocation |-> "Tavern"]>>),
     Req(T_delete_npc, "npc", <<[name |-> "Garrick", currentLocation |-> Absent]>>),
     Req(T_add_unicorn, "empty", <<>>),
     Req(T_get_npc, "empty", <<>>)}

NextInit ==
    \/ \E i \in InitCallers :
          \/ InitializeCall(i)
          \/ \E t \in ToolSets : InitializeLoaded(i, t)
          \/ InitializeFailed(i)
          \/ InitializeReturn(i)
    \/ GetTools
    \/ \E n \in {T_add_npc, T_add_quest} : IsDynamicTool(n)
    \/ \E r \in InitRequests : Dispatch(1, r)
    \/ Enter(1)
    \/ Commit(1)
    \/ Read(1)
    \/ Respond(1)
    \/ Return(1)

SpecInit == Init /\ [][NextInit]_vars

(***************************************************************************)
(* SpecCompiled: the schema-compiled add_<type> tools, called with         *)
(* arguments that are valid, incomplete, mistyped or outside an enum.      *)
(***************************************************************************)
QuestBase ==
    "name" :> Str("Rats") @@ "description" :> Str("Clear the cellar")
    @@ "status" :> Str("Active") @@ "objectives" :> Arr(<<"Find the nest">>)
    @@ "rewards" :> Arr(<<"Gold", "Ale">>)

NpcBase ==
    "name" :> Str("Garrick") @@ "role" :> Str("Innkeeper") @@ "status" :> Str("Alive")
    @@ "currentLocation" :> Str("Tavern") @@ "description" :> Str("Stout")

LocationBase ==
    "name" :> Str("Tavern") @@ "type" :> Str("Inn") @@ "description" :> Str("Warm")
    @@ "status" :> Str("Open")

Without(a, f) == [x \in DOMAIN a \ {f} |-> a[x]]

QuestArgSets ==
    {QuestBase,
     "relatedNPCs" :> Arr(<<"Garrick">>) @@ QuestBase,
     "relatedLocations" :> Arr(<<"Tavern", "Cellar">>) @@ QuestBase,
     Without(QuestBase, "status"),
     Without(QuestBase, "name"),
     "status" :> Str("Pending") @@ QuestBase,
     "objectives" :> Str("Find the nest") @@ QuestBase}

NpcArgSets ==
    {NpcBase,
     "origin" :> Str("Capital") @@ NpcBase,
     "traits" :> Arr(<<"Gruff", "Loyal">>) @@ NpcBase,
     Without(NpcBase, "currentLocation"),
     "currentLocation" :> Num("7") @@ NpcBase,
     "currentLocation" :> Str("Cellar") @@ "name" :> Str("Mira") @@ NpcBase}

LocationArgSets ==
    {LocationBase,
     "subLocations" :> Arr(<<"Cellar", "Attic">>) @@ LocationBase,
     "subLocations" :> Arr(<<>>) @@ LocationBase,
     "subLocations" :> Arr(<<"Cellar">>) @@ "relatedCharacters" :> Arr(<<"Garrick">>)
         @@ LocationBase,
     "subLocations" :> Str("Cellar") @@ LocationBase,
     Without(LocationBase, "description")}

CompiledRequests ==
    {Req(T_add_quest, "fields", <<a>>) : a \in QuestArgSets}
    \cup {Req(T_add_npc, "fields", <<a>>) : a \in NpcArgSets}
    \cup {Req(T_add_location, "fields", <<a>>) : a \in LocationArgSets}

NextCompiled ==
    \/ CallsIdle /\ InitializeCall(1)
    \/ InitializeLoaded(1, CompiledTools)
    \/ InitializeReturn(1)
    \/ \E r \in CompiledRequests : InitIdle /\ Dispatch(1, r)
    \/ Enter(1)
    \/ Commit(1)
    \/ Respond(1)
    \/ Return(1)

SpecCompiled == Init /\ [][NextCompiled]_vars

(***************************************************************************)
(* SpecExplorer: the explorer started on a memory file, which any writer   *)
(* may have left: nodes and edges, records without a node or edge tag,     *)
(* blank lines, text that is not JSON, or no file.                         *)
(***************************************************************************)
LinePool ==
    <<Stringify(Tagged("node", NodeRecord("Ann", "npc", <<"Status: Active">>))),
      Stringify(Tagged("node", NodeRecord("Bo", "NPC", <<>>))),
      Stringify(Tagged("node", NodeRecord("ai", "tag", <<>>))),
      Stringify(Tagged("node", NodeRecord("Stan", "type", <<"Knows Ann">>))),
      Stringify(Tagged("node", NodeRecord("Eve", "", <<>>))),
      Stringify(Tagged("edge", EdgeRecord("Ann", "AI", "tagged_with"))),
      Stringify(Tagged("edge", EdgeRecord("Bo", "ai", "tagged_with"))),
      Stringify(Tagged("edge", EdgeRecord("Stan", "ai", "related_to"))),
      Stringify(NodeRecord("Cy", "npc", <<>>)),
      Stringify(Tagged("idea", NodeRecord("Di", "npc", <<>>))),
      BlankLine,
      GarbageLine>>

RECURSIVE PickFrom(_, _, _)
\* the lines of the pool at the places S, in the pool's order
PickFrom(pool, i, S) ==
    IF i > Len(pool) THEN <<>>
    ELSE (IF i \in S THEN <<pool[i]>> ELSE <<>>) \o PickFrom(pool, i + 1, S)

ExplorerFiles ==
    {PickFrom(LinePool, 1, S) :
        S \in {T \in SUBSET (1..Len(LinePool)) : Cardinality(T) <= MaxLines}}

Queries ==
    {"", "type:npc", "type:NPC", "Type: npc", "nodetype:npc", "type:tag", "type:",
     "tag:ai", "tag:AI", " TAG : Ai", "an", "AN", "status: active", "s:", "ai", "npc"}

InitExplorer ==
    /\ InitServer
    /\ memory \in ExplorerFiles
    /\ extracted = NotExtracted
    /\ vault = <<>>
    /\ session = NoSession
    /\ loaded = NotLoaded
    /\ found = NotAsked

NextExplorer ==
    \/ LoadGraph
    \/ \E q \in Queries : FindNodes(q)

SpecExplorer == InitExplorer /\ [][NextExplorer]_vars

(***************************************************************************)
(* SpecSession: the explorer as its user meets it, lines typed in          *)
(* interactive mode and runs with command line arguments, on a memory      *)
(* file of a few nodes and edges.                                          *)
(***************************************************************************)
SessionFiles ==
    {PickFrom(LinePool, 1, S) :
        S \in {T \in SUBSET {1, 2, 3, 4, 6, 12} : Cardinality(T) <= MaxLines}}

TypedLines ==
    {"search an", " search ai ", "search type:npc", "search", "node Ann", "help", "stats",
     "exit", " an", "tag:ai"}

CommandLines ==
    {<<"search", "an">>, <<"search", "type:npc">>, <<"search", "status:", "active">>,
     <<"node", "Ann">>, <<"search">>, <<"stats">>}

InitSession ==
    /\ InitServer
    /\ memory \in SessionFiles
    /\ extracted = NotExtracted
    /\ vault = <<>>
    /\ session = NoSession
    /\ loaded = NotLoaded
    /\ found = NotAsked

NextSession ==
    \/ LoadGraph
    \/ \E line \in TypedLines : Interactive(line)
    \/ \E args \in CommandLines : CommandLine(args)

SpecSession == InitSession /\ [][NextSession]_vars

(***************************************************************************)
(* SpecImporter: one run of the importer over a vault, the file it wrote   *)
(* handed to the explorer, its lines in any of several orders.             *)
(***************************************************************************)
\* numbers: the places among the tags where the YAML value is a number
VaultFile(d, n, r, st, tags, topics, related, up, numbers) ==
    [dir |-> d, name |-> n, readable |-> r, status |-> st, tags |-> tags,
     topics |-> topics, related |-> related, up |-> up, numbers |-> numbers]

FilePool ==
    <<VaultFile("Details", "AI", TRUE, "Active", <<"#idea", "coding">>, <<"Tech">>,
                <<"[[Plan]]">>, <<>>, {}),
      VaultFile("Details", "Tech", TRUE, "", <<"Tech">>, <<>>, <<>>, <<>>, {}),
      VaultFile("Details", "Lost", FALSE, "", <<"#idea">>, <<"Tech">>, <<>>, <<>>, {}),
      VaultFile("New Files", "AI", TRUE, "", <<>>, <<>>, <<>>, <<>>, {}),
      VaultFile("New Files", "Solo", TRUE, "", <<>>, <<>>, <<>>, <<>>, {}),
      VaultFile("Projects", "Plan", TRUE, "", <<"#AI">>, <<"Tech">>, <<>>, <<"[[AI]]">>, {}),
      VaultFile("Details", "Log", TRUE, "", <<"coding", "2024">>, <<"Tech">>, <<>>, <<>>, {2})>>

Vaults ==
    {PickFrom(FilePool, 1, S) :
        S \in {T \in SUBSET (1..Len(FilePool)) : Cardinality(T) <= MaxFiles}}

NextImporter ==
    \/ \E v \in Vaults : BuildKnowledgeGraph(v)
    \/ RotateLines
    \/ ReverseLines
    \/ LoadGraph

SpecImporter == Init /\ [][NextImporter]_vars

(***************************************************************************)
(* PROPERTIES                                                              *)
(***************************************************************************)
HasNode(name) == \E i \in 1..Len(nodes) : nodes[i].name = name

UniqueNames == \A i, j \in 1..Len(nodes) : nodes[i].name = nodes[j].name => i = j

\* the step in which the store method of call c settles
Settles(c) == pc[c] = "inStore" /\ pc'[c] = "stored"

\* every item of the add_nodes batch of call c names a node the graph has
AllItemsExist(c) == \A k \in 1..Len(op[c].items) : HasNode(op[c].items[k].name)

C2_NoDanglingEdge ==
    \A i \in 1..Len(edges) : HasNode(edges[i].from) /\ HasNode(edges[i].to)

\* C3: once delete_nodes(names) has returned without failure, no node bears
\* a name of names and no edge has one as its from or its to.
C3_CascadeDelete ==
    \A c \in Calls :
        (pc[c] \in {"stored", "done"} /\ req[c].name = T_delete_nodes
            /\ outcome[c] = "ok" /\ resp[c].kind # "error") =>
            \A n \in Range(req[c].args.items) :
                /\ ~HasNode(n)
                /\ \A i \in 1..Len(edges) : edges[i].from # n /\ edges[i].to # n

\* delete_nodes has returned success for a name that an edge of the graph
\* would otherwise still carry: the other endpoint is still a node and its
\* outgoing edge is gone
C3_Witness ==
    \E c \in Calls :
        /\ pc[c] = "done" /\ req[c].name = T_delete_nodes /\ resp[c].kind = "success"
        /\ req[c].args.items = <<"Tavern">>
        /\ HasNode("Garrick")
        /\ edges = <<>>
        /\ Lines(Graph) = file

IsMutating(c) == req[c].name \in MutatingBuiltins \/ dynamic[c]

FileMatchesMemory == Records(file, "node") = nodes /\ Records(file, "edge") = edges

AllDone == \A c \in Calls : pc[c] = "done"

\* what call c leaves of graph g when it runs alone
RunAlone(c, g) == IF outcome[c] = "ok" THEN StoreApply(op[c], g).g ELSE g

IsAddOf(c, name) ==
    /\ pc[c] = "done" /\ req[c].name = T_add_nodes
    /\ Len(op[c].items) = 1 /\ op[c].items[1].name = name

InFile(name) ==
    \E i \in 1..Len(file) : file[i].type = "node" /\ file[i].rec.name = name

\* C4: two concurrent add_nodes calls for distinct names both succeed, no
\* write failing, and both nodes are then in memory and in the file; any two
\* concurrent mutating calls leave the graph one of the two serial orders
\* leaves, the file equal to it, each call taking effect in one step on the
\* graph as it stands.
C4_ConcurrentCallsSerialize ==
    /\ [](\A c1, c2 \in Calls :
            (IsAddOf(c1, "Garrick") /\ IsAddOf(c2, "Tavern")
                /\ outcome[c1] # "PersistenceError"
                /\ outcome[c2] # "PersistenceError") =>
                /\ resp[c1].kind = "success" /\ resp[c2].kind = "success"
                /\ HasNode("Garrick") /\ HasNode("Tavern")
                /\ InFile("Garrick") /\ InFile("Tavern"))
    /\ [](AllDone =>
            /\ FileMatchesMemory
            /\ \/ Graph = RunAlone(2, RunAlone(1, EmptyGraph))
               \/ Graph = RunAlone(1, RunAlone(2, EmptyGraph)))
    /\ [][\A c \in Calls :
            (Settles(c) /\ outcome'[c] = "ok") =>
                /\ [nodes |-> nodes', edges |-> edges'] = StoreApply(op[c], Graph).g
                /\ file' = Lines(StoreApply(op[c], Graph).g)]_vars

\* both adds were in flight together and both returned success
C4_Witness ==
    /\ IsAddOf(1, "Garrick") /\ IsAddOf(2, "Tavern")
    /\ resp[1].kind = "success" /\ resp[2].kind = "success"
    /\ nodes[1].name = "Tavern"

\* C5: when a mutating call returns a success response, its store method
\* has settled with the write confirmed and the file holds exactly the nodes
\* and edges of the graph in memory.
C5_SuccessMeansPersisted ==
    \A c \in Calls :
        (pc[c] = "done" /\ resp[c].kind = "success" /\ IsMutating(c)) =>
            outcome[c] = "ok" /\ FileMatchesMemory

\* a mutating call returned success over a graph that is not empty
C5_Witness ==
    \E c \in Calls :
        /\ pc[c] = "done" /\ resp[c].kind = "success" /\ IsMutating(c)
        /\ Len(nodes) > 0 /\ Len(edges) > 0

\* C6: a call whose write of the file failed returns an error envelope, and
\* the step in which the write fails changes neither the graph in memory
\* nor the file.
C6_FailedWriteIsError ==
    /\ [](\A c \in Calls :
            (pc[c] = "done" /\ outcome[c] = "PersistenceError") => resp[c].kind = "error")
    /\ [][\A c \in Calls :
            (Settles(c) /\ outcome'[c] = "PersistenceError") =>
                nodes' = nodes /\ edges' = edges /\ file' = file]_vars

\* a call that would have changed the graph returned after its write failed
C6_Witness ==
    \E c \in Calls :
        /\ pc[c] = "done" /\ outcome[c] = "PersistenceError"
        /\ StoreApply(op[c], Graph).g # Graph

\* the method the claim pairs with each built-in name
C7_Method ==
    [n \in BuiltinNames |->
        CASE n = T_add_nodes -> "addNodes"
          [] n = T_update_nodes -> "updateNodes"
          [] n = T_add_edges -> "addEdges"
          [] n = T_update_edges -> "updateEdges"
          [] n = T_add_metadata -> "addMetadata"
          [] n = T_delete_nodes -> "deleteNodes"
          [] n = T_delete_metadata -> "deleteMetadata"
          [] n = T_delete_edges -> "deleteEdges"
          [] n = T_read_graph -> "readGraph"
          [] n = T_search_nodes -> "searchNodes"
          [] n = T_open_nodes -> "openNodes"]

\* the names of the model that begin with add_, update_ or delete_ and are
\* not built in, and the names that are neither
C7_Prefixed == {T_add_npc, T_update_npc, T_delete_npc, T_add_quest, T_add_unicorn}
C7_Unknown == {T_get_npc, T_readd_npc}

\* C7: a call with arguments of a built-in name calls the one store method
\* of that name and not the compiled handlers; of another name with the
\* prefix add_, update_ or delete_, the compiled handlers and no store method
\* directly; of any other name, neither, and returns the unknown-tool error.
C7_Routing ==
    \A c \in Calls :
        (pc[c] # "idle" /\ req[c].hasParams /\ req[c].args.kind # "undefined") =>
            /\ req[c].name \in BuiltinNames =>
                  direct[c] = C7_Method[req[c].name] /\ ~dynamic[c]
            /\ req[c].name \in C7_Prefixed =>
                  direct[c] = "none" /\ dynamic[c]
            /\ req[c].name \in C7_Unknown =>
                  /\ direct[c] = "none" /\ ~dynamic[c] /\ op[c] = NoOp
                  /\ pc[c] = "done" /\ resp[c] = ErrorEnvelope("Unknown tool")

\* a name that holds add_ but does not begin with it was answered unknown
C7_Witness ==
    \E c \in Calls :
        /\ pc[c] = "done" /\ req[c].name = T_readd_npc
        /\ req[c].args.kind # "undefined"
        /\ resp[c] = ErrorEnvelope("Unknown tool")

\* C10: no call of handleCallToolRequest ends in an exception or a rejected
\* promise; every failure comes back as an error envelope.
C10_NothingEscapes == \A c \in Calls : resp[c].kind # "thrown"

NotReady == ErrorEnvelope("Dynamic tools not initialized")

\* the step in which call c is dispatched with arguments
DispatchedWithArgs(c) ==
    /\ pc[c] = "idle" /\ pc'[c] # "idle"
    /\ req'[c].hasParams /\ req'[c].args.kind # "undefined"

\* C8 as stated: before initialize() has succeeded, every tool call, built
\* in or compiled, and every listing of the tools fails with the
\* initialization error and calls no store method.
C8_AllDispatchNeedsInit ==
    [][/\ \A c \in Calls :
            (pc[c] = "idle" /\ pc'[c] # "idle" /\ ~initialized) =>
                pc'[c] = "done" /\ resp'[c] = NotReady /\ direct'[c] = "none"
       /\ (listed' # listed /\ listed'.op = "getTools" /\ ~initialized) => listed'.threw]_vars

\* C8, amended: before initialize() has succeeded, a call with arguments of
\* a name that is not built in and begins with add_, update_ or delete_
\* returns the error "Dynamic tools not initialized" and reaches no store
\* method, and getTools() throws; a built-in name is passed to its store
\* method all the same, and isDynamicTool() answers false.
C8_CompiledDispatchNeedsInit ==
    [][/\ \A c \in Calls :
            (DispatchedWithArgs(c) /\ ~initialized) =>
                /\ req'[c].name \in C7_Prefixed =>
                      /\ pc'[c] = "done" /\ resp'[c] = NotReady
                      /\ direct'[c] = "none" /\ op'[c] = NoOp
                /\ req'[c].name \in BuiltinNames =>
                      /\ pc'[c] = "called"
                      /\ direct'[c] = C7_Method[req'[c].name]
       /\ (listed' # listed /\ ~initialized) =>
            \/ listed'.op = "getTools" /\ listed'.threw
            \/ listed'.op = "isDynamicTool" /\ ~listed'.threw /\ ~listed'.answer]_vars

\* before any initialize() succeeded, add_npc was refused and getTools threw
C8_Witness ==
    /\ ~initialized
    /\ pc[1] = "done" /\ req[1].name = T_add_npc /\ resp[1] = NotReady
    /\ listed.op = "getTools" /\ listed.threw

\* C9: a call of initialize() made once initialized is set returns without
\* loading: the count of loads, the registry and the flag stay as they were
\* from its call to its return.
C9_InitializeOnce ==
    [][\A i \in InitCallers :
          /\ (initSt[i].pc = "idle" /\ initSt'[i].pc # "idle" /\ initialized) =>
                /\ initSt'[i].pc = "returning"
                /\ loads' = loads /\ registry' = registry /\ initialized' = initialized
          /\ (initSt[i].pc = "returning" /\ initSt'[i] # initSt[i]) =>
                /\ initSt'[i].pc = "idle"
                /\ loads' = loads /\ registry' = registry /\ initialized' = initialized]_vars

\* a later call of initialize() is returning early, after a load that
\* followed a failed one
C9_Witness ==
    /\ initialized /\ registry.id = 2
    /\ \E i \in InitCallers : initSt[i].pc = "returning"

(***************************************************************************)
(* Compiled add_<type> tools                                               *)
(***************************************************************************)
AddTools == {T_add_quest, T_add_npc, T_add_location}

\* call c is a compiled add_<type> call given its fields
IsCompiledAdd(c) ==
    req[c].hasParams /\ req[c].name \in AddTools /\ req[c].args.kind = "fields"

FieldsOf(r) == r.args.items[1]

\* the arguments break the schema: a required field is missing, or a
\* supplied one has another type or a value outside its enum
Faulty(r) ==
    LET props == SchemaOf(r.name).props
        a == FieldsOf(r)
    IN  \E i \in 1..Len(props) :
          \/ props[i].required /\ props[i].field \notin DOMAIN a
          \/ /\ props[i].field \in DOMAIN a
             /\ \/ a[props[i].field].t # props[i].type
                \/ /\ props[i].enum # {}
                   /\ \A k \in 1..Len(a[props[i].field].v) :
                         a[props[i].field].v[k] \notin props[i].enum

\* the properties of the call's schema that carry a relationship and are
\* supplied, by their place in the schema
RelationshipProps(r) ==
    {i \in 1..Len(SchemaOf(r.name).props) :
        /\ SchemaOf(r.name).props[i].edgeType # ""
        /\ SchemaOf(r.name).props[i].field \in DOMAIN FieldsOf(r)}

\* the edges the claim expects of the call: one per value of each of them
ExpectedEdges(r) ==
    LET props == SchemaOf(r.name).props
        a == FieldsOf(r)
    IN  UNION {{[from |-> a.name.v[1], to |-> a[props[i].field].v[k],
                 edgeType |-> props[i].edgeType] :
                   k \in 1..Len(a[props[i].field].v)} : i \in RelationshipProps(r)}

RECURSIVE SumOver(_, _)
SumOver(S, f) ==
    IF S = {} THEN 0
    ELSE LET x == CHOOSE y \in S : TRUE IN f[x] + SumOver(S \ {x}, f)

\* how many values the supplied relationship properties hold together
ExpectedEdgeCount(r) ==
    LET props == SchemaOf(r.name).props
        a == FieldsOf(r)
    IN  SumOver(RelationshipProps(r),
                [i \in RelationshipProps(r) |-> Len(a[props[i].field].v)])

EdgeInFile(e) == \E i \in 1..Len(file) : file[i] = [type |-> "edge", rec |-> e]

NodeInFile(name) ==
    \E i \in 1..Len(file) : file[i].type = "node" /\ file[i].rec.name = name

\* C11: a compiled add_<type> call is all or nothing.  A call whose
\* arguments break the schema ends without success and asks nothing of the
\* store; a call the store fails (the name taken, the write failing) leaves
\* nodes, edges and file as they were; a call that succeeds puts the node
\* and every one of its relationship edges into graph and file in one step.
C11_AllOrNothing ==
    [][\A c \in Calls :
          /\ (pc[c] = "idle" /\ pc'[c] # "idle" /\ req'[c].hasParams
                /\ req'[c].name \in AddTools /\ req'[c].args.kind = "fields"
                /\ Faulty(req'[c])) =>
                /\ pc'[c] = "done" /\ resp'[c].kind # "success" /\ op'[c] = NoOp
                /\ nodes' = nodes /\ edges' = edges /\ file' = file
          /\ (Settles(c) /\ IsCompiledAdd(c)) =>
                IF outcome'[c] = "ok"
                THEN /\ \E i \in 1..Len(nodes') :
                            nodes'[i].name = FieldsOf(req[c]).name.v[1]
                     /\ \E i \in 1..Len(file') :
                            /\ file'[i].type = "node"
                            /\ file'[i].rec.name = FieldsOf(req[c]).name.v[1]
                     /\ \A e \in ExpectedEdges(req[c]) :
                            /\ e \in Range(edges')
                            /\ [type |-> "edge", rec |-> e] \in Range(file')
                     /\ ~HasNode(FieldsOf(req[c]).name.v[1])
                ELSE nodes' = nodes /\ edges' = edges /\ file' = file]_vars

\* the write of a compiled add with relationship edges failed, and neither
\* its node nor its edges are there
C11_Witness ==
    \E c \in Calls :
        /\ pc[c] = "done" /\ IsCompiledAdd(c) /\ outcome[c] = "PersistenceError"
        /\ ExpectedEdges(req[c]) # {}
        /\ ~HasNode(FieldsOf(req[c]).name.v[1])
        /\ \A e \in ExpectedEdges(req[c]) : e \notin Range(edges) /\ ~EdgeInFile(e)

\* the metadata line the claim expects of property p
ExpectedLine(p, a) == p.label \o ": " \o Join(a[p.field].v)

\* C12: the edges a successful compiled add_<type> call creates are exactly
\* one edge from the new node per value of each supplied property that
\* carries a relationship, of the annotation's edge type; such a property
\* gives no metadata line and every other supplied property gives one and
\* no edge; add_quest creates no edge, and add_npc exactly one located_in
\* edge, to its currentLocation.
C12_RelationshipEdges ==
    [][\A c \in Calls :
          (Settles(c) /\ IsCompiledAdd(c) /\ outcome'[c] = "ok") =>
              LET a == FieldsOf(req[c])
                  props == SchemaOf(req[c].name).props
                  added == SubSeq(edges', Len(edges) + 1, Len(edges'))
                  node == nodes'[Len(nodes')]
              IN  /\ SubSeq(edges', 1, Len(edges)) = edges
                  /\ Range(added) = ExpectedEdges(req[c])
                  /\ Len(added) = ExpectedEdgeCount(req[c])
                  /\ node.name = a.name.v[1]
                  /\ \A i \in 1..Len(props) :
                        (props[i].field \in DOMAIN a /\ props[i].field # "name") =>
                            (ExpectedLine(props[i], a) \in Range(node.metadata)
                                <=> props[i].edgeType = "")
                  /\ Len(node.metadata) =
                        Cardinality({i \in 1..Len(props) :
                                        /\ props[i].field \in DOMAIN a
                                        /\ props[i].field # "name"
                                        /\ props[i].edgeType = ""})
                  /\ req[c].name = T_add_quest => added = <<>>
                  /\ req[c].name = T_add_npc =>
                        /\ Cardinality({k \in 1..Len(added) :
                                           added[k].edgeType = "located_in"}) = 1
                        /\ \E k \in 1..Len(added) :
                              added[k] = [from |-> a.name.v[1],
                                          to |-> a.currentLocation.v[1],
                                          edgeType |-> "located_in"]]_vars

\* add_location has succeeded with two relationship properties supplied, and
\* the graph holds one edge of each type from the new node
C12_Witness ==
    \E c \in Calls :
        /\ pc[c] = "done" /\ IsCompiledAdd(c) /\ resp[c].kind = "success"
        /\ req[c].name = T_add_location
        /\ Cardinality(RelationshipProps(req[c])) = 2
        /\ Range(edges) = ExpectedEdges(req[c])
        /\ Len(edges) = 2

(***************************************************************************)
(* What the responses of the built-in tools report                         *)
(***************************************************************************)
\* the names of the batch of call c that no node of the graph bears
NewNames(c) == {op[c].items[k].name : k \in 1..Len(op[c].items)} \ {nodes[i].name : i \in 1..Len(nodes)}

\* C13: when an add_nodes batch mixes new names and names that exist, the
\* new ones are added, the existing ones are not, and the number of nodes
\* the success response reports as added is the number added to the graph.
C13_BatchReportsAdded ==
    [][\A c \in Calls :
          (Settles(c) /\ direct[c] = "addNodes" /\ op[c].def /\ outcome'[c] = "ok") =>
              /\ {nodes'[i].name : i \in 1..Len(nodes')}
                    = {nodes[i].name : i \in 1..Len(nodes)} \cup NewNames(c)
              /\ \A i \in 1..Len(nodes) : nodes'[i] = nodes[i]
              /\ ReportedAdded(req[c].args) = Len(nodes') - Len(nodes)]_vars

\* C14: a successful open_nodes(names) returns exactly the nodes whose name
\* is in names and tells which names were not found, and no name that no
\* node bears is reported as opened.
C14_OpenReportsMissing ==
    \A c \in Calls :
        (pc[c] = "done" /\ direct[c] = "openNodes" /\ resp[c].kind = "success") =>
            LET names == Range(req[c].args.items)
                r == openNodes(Graph, req[c].args.items)
            IN  /\ Range(r.found) = {nodes[i] : i \in {j \in 1..Len(nodes) : nodes[j].name \in names}}
                /\ r.notFound = {x \in names : ~HasNode(x)}
                /\ \A x \in ReportedOpened(req[c].args) : HasNode(x)

(***************************************************************************)
(* Searching the loaded graph                                              *)
(***************************************************************************)
\* the node records of the loaded graph, and its tagged_with edges
LoadedNodes == SelectSeq(loaded.items, LAMBDA item : IsA(item, "node"))
LoadedTagEdges ==
    {loaded.items[i] : i \in {j \in 1..Len(loaded.items) :
                                /\ IsA(loaded.items[j], "edge")
                                /\ loaded.items[j].edgeType = "tagged_with"}}

HasPrefix(s, p) == Len(s) >= Len(p) /\ SubSeq(s, 1, Len(p)) = p
After(s, p) == SubSeq(s, Len(p) + 1, Len(s))

\* the search answered is one for type:X
AskedType == found.asked /\ HasPrefix(found.query, "type:")
\* the search answered is one for tag:T
AskedTag == found.asked /\ HasPrefix(found.query, "tag:")

\* C15 as stated: a search for type:X returns exactly the nodes whose
\* nodeType is X, letter for letter.
C15_TypeQueryExact ==
    AskedType =>
        found.nodes = SelectSeq(LoadedNodes,
                                LAMBDA n : n.nodeType = After(found.query, "type:"))

\* C15, amended: a search for type:X, X holding no colon, returns exactly
\* the nodes with a nodeType that is not empty and, lowercased, is X trimmed
\* and lowercased.
C15_TypeQueryIgnoresCase ==
    (AskedType /\ ~Includes(After(found.query, "type:"), ":")) =>
        found.nodes =
            SelectSeq(LoadedNodes,
                      LAMBDA n : /\ n.nodeType # ""
                                 /\ ToLowerCase(n.nodeType)
                                       = ToLowerCase(Trim(After(found.query, "type:"))))

\* type:NPC has returned a node of type npc and one of type NPC together
C15_Witness ==
    /\ found.asked /\ found.query = "type:NPC"
    /\ \E i, j \in 1..Len(found.nodes) :
          found.nodes[i].nodeType = "npc" /\ found.nodes[j].nodeType = "NPC"

\* C16 as stated: a search for tag:T returns exactly the nodes that are the
\* from of a tagged_with edge whose to is the tag node T.
C16_TagQueryExact ==
    AskedTag =>
        found.nodes =
            SelectSeq(LoadedNodes,
                      LAMBDA n : \E e \in LoadedTagEdges :
                                    /\ e.from = n.name
                                    /\ e.to = After(found.query, "tag:")
                                    /\ \E i \in 1..Len(LoadedNodes) :
                                          LoadedNodes[i].name = e.to)

\* C16, amended: a search for tag:T, T holding no colon, returns exactly
\* the nodes that are the from of a tagged_with edge whose to, lowercased,
\* is T trimmed and lowercased, whether or not a node of that name exists.
C16_TagQueryIgnoresCase ==
    (AskedTag /\ ~Includes(After(found.query, "tag:"), ":")) =>
        found.nodes =
            SelectSeq(LoadedNodes,
                      LAMBDA n : \E e \in LoadedTagEdges :
                                    /\ e.from = n.name
                                    /\ ToLowerCase(e.to)
                                          = ToLowerCase(Trim(After(found.query, "tag:"))))

\* tag:ai has returned a node tagged AI, of which there is no tag node
C16_Witness ==
    /\ found.asked /\ found.query = "tag:ai"
    /\ \E i \in 1..Len(found.nodes) : found.nodes[i].name = "Ann"
    /\ \A i \in 1..Len(LoadedNodes) : LoadedNodes[i].name # "AI"

\* the nodes whose name or one of whose metadata entries holds q, case aside
SubstringMatches(q) ==
    SelectSeq(LoadedNodes,
              LAMBDA n : \/ Includes(ToLowerCase(n.name), ToLowerCase(q))
                         \/ \E k \in 1..Len(n.metadata) :
                               Includes(ToLowerCase(n.metadata[k]), ToLowerCase(q)))

\* C17 as stated: a search for a query that is not type:X or tag:T, a colon
\* in it or not, returns exactly the nodes whose name or metadata holds the
\* query, case aside.
C17_GeneralQuery ==
    (found.asked /\ ~HasPrefix(found.query, "type:") /\ ~HasPrefix(found.query, "tag:")) =>
        found.nodes = SubstringMatches(found.query)

\* what stands before the first colon of the query, trimmed and lowercased
FieldOf(q) == ToLowerCase(Trim(Split(q, ":")[1]))

\* C17, amended: a search for a query that has no colon, or whose part
\* before the first colon, trimmed and lowercased, is none of type,
\* nodetype and tag, returns exactly the nodes whose name or metadata holds
\* the query, case aside.
C17_GeneralQueryButAliases ==
    (found.asked
        /\ (Includes(found.query, ":") => FieldOf(found.query) \notin {"type", "nodetype", "tag"})) =>
        found.nodes = SubstringMatches(found.query)

\* a query with a colon has matched a metadata line, case aside, of a node
\* whose name does not hold it
C17_Witness ==
    /\ found.asked /\ found.query = "status: active"
    /\ Len(found.nodes) = 1 /\ found.nodes[1].name = "Ann"
    /\ Len(LoadedNodes) > 1

\* C19: a load that succeeds has skipped no line: every line of the file
\* that is not blank parses and gives a record tagged node or edge.
C19_NoLineSkipped ==
    loaded.status = "ok" =>
        \A i \in 1..Len(memory) :
            memory[i].text # "blank" =>
                /\ memory[i].text = "object"
                /\ IsA(memory[i].obj, "node") \/ IsA(memory[i].obj, "edge")

(***************************************************************************)
(* The importer's file                                                     *)
(***************************************************************************)
\* a loaded record without its tag
Untag(item) == [k \in DOMAIN item \ {"type"} |-> item[k]]

LoadedOf(t) ==
    {Untag(loaded.items[i]) : i \in {j \in 1..Len(loaded.items) : IsA(loaded.items[j], t)}}

C20_ImporterNamesDistinct ==
    \A i, j \in 1..Len(extracted.nodes) :
        extracted.nodes[i].name = extracted.nodes[j].name => i = j

(***************************************************************************)
(* The importer's graph                                                    *)
(***************************************************************************)
EmittedNames == {extracted.nodes[i].name : i \in 1..Len(extracted.nodes)}
EmittedOfType(T) ==
    {extracted.nodes[i].name : i \in {j \in 1..Len(extracted.nodes) : extracted.nodes[j].nodeType \in T}}
EmittedEdges(t) == {e \in Range(extracted.relationships) : e.edgeType = t}

\* C21: every edge one run of the importer emits, of any of its four types,
\* goes from the name of a node of that run to the name of a node of that
\* run.
C21_ImporterNoDanglingEdge ==
    \A e \in Range(extracted.relationships) :
        e.from \in EmittedNames /\ e.to \in EmittedNames

FileNodeTypes == {"knowledge", "idea", "project"}
Processed == SelectSeq(vault, LAMBDA f : extractNodeFromFile(f) # <<>>)
ProcessedNames == {Processed[i].name : i \in 1..Len(Processed)}
ProcessedTopics == UNION {Range(Processed[i].topics) : i \in 1..Len(Processed)}
ProcessedTags == UNION {{TagName(t) : t \in Range(Processed[i].tags)} : i \in 1..Len(Processed)}

\* C29: in the output of one run every tagged_with edge goes from an emitted
\* file node to an emitted tag node and every belongs_to_topic edge from an
\* emitted file node to an emitted topic node, and a file whose processing
\* failed has contributed nothing: each node is the node of a processed
\* file or a topic or tag of one, each edge leaves a processed file.
C29_TagAndTopicEdges ==
    /\ \A e \in EmittedEdges("tagged_with") :
          e.from \in EmittedOfType(FileNodeTypes) /\ e.to \in EmittedOfType({"tag"})
    /\ \A e \in EmittedEdges("belongs_to_topic") :
          e.from \in EmittedOfType(FileNodeTypes) /\ e.to \in EmittedOfType({"topic"})
    /\ EmittedOfType(FileNodeTypes) \subseteq ProcessedNames
    /\ EmittedOfType({"topic"}) \subseteq ProcessedTopics
    /\ EmittedOfType({"tag"}) \subseteq ProcessedTags
    /\ \A e \in Range(extracted.relationships) : e.from \in ProcessedNames

(***************************************************************************)
(* The explorer's commands                                                 *)
(***************************************************************************)
\* the line typed in interactive mode is the command search Q
TypedSearch == session.mode = "interactive" /\ HasPrefix(Trim(session.input), "search ")
TypedQuery == After(Trim(session.input), "search ")

\* C22: in interactive mode the line search Q lists the nodes the command
\* line form lists for search Q, those found for the query Q.
C22_InteractiveSearch ==
    TypedSearch =>
        /\ found.asked
        /\ found.nodes = findNodes(loaded.items, CommandLineQuery(<<"search", TypedQuery>>))

(***************************************************************************)
(* The registry under concurrent initialize() calls                        *)
(***************************************************************************)
Loading == {i \in InitCallers : initSt[i].pc = "loading"}

\* C24: in every interleaving of initialize() calls a load of the schemas
\* starts only when none is under way and none has succeeded, and the
\* registry, once set, is never replaced by another registry object.
C24_OneLoadOneRegistry ==
    [][/\ loads' > loads => (Loading = {} /\ registry = NullRegistry)
       /\ registry # NullRegistry => registry' = registry]_vars

\* caller i's initialize() ends by throwing: its load was rejected
FailedStep(i) ==
    initSt[i].pc = "loading" /\ initSt'[i].pc = "idle" /\ registry' = registry

FlagMatchesRegistry == initialized <=> registry # NullRegistry

\* C25: initialized is true exactly when the registry is set; an
\* initialize() that fails leaves initialized false and the registry null,
\* and an initialize() called while initialized is false starts a load.
C25_FlagAndRegistry ==
    /\ []FlagMatchesRegistry
    /\ [][\A i \in InitCallers :
             /\ FailedStep(i) => (~initialized' /\ registry' = NullRegistry)
             /\ (initSt[i].pc = "idle" /\ initSt'[i].pc # "idle" /\ ~initialized) =>
                   (initSt'[i].pc = "loading" /\ loads' = loads + 1)]_vars

(***************************************************************************)
(* Calls without arguments                                                 *)
(***************************************************************************)
\* call c was made with params but without an arguments object
WithoutArguments(c) == pc[c] # "idle" /\ req[c].hasParams /\ req[c].args = Undefined

\* C26: a tool call without an arguments object has returned the error
\* envelope "No arguments provided" and has called neither a store method
\* nor the compiled handlers, whatever the tool name.
C26_NoArguments ==
    \A c \in Calls :
        WithoutArguments(c) =>
            /\ pc[c] = "done"
            /\ resp[c] = ErrorEnvelope("No arguments provided")
            /\ op[c] = NoOp /\ direct[c] = "none" /\ ~dynamic[c]

\* add_npc, compiled and ready in the registry, was called without arguments
C26_Witness ==
    /\ WithoutArguments(1) /\ pc[1] = "done"
    /\ req[1].name = T_add_npc
    /\ ManagerReady(initialized, registry) /\ T_add_npc \in registry.tools
    /\ resp[1].kind = "error"

(***************************************************************************)
(* Failures of compiled tools                                              *)
(***************************************************************************)
\* the failures a compiled tool call ends with before it reaches the store
RefusedBeforeStore ==
    {"Dynamic tools not initialized", "ValidationError", "UnknownToolError"}

\* call c went to dynamicTools.handleToolCall and has its response
CompiledDone(c) == pc[c] = "done" /\ dynamic[c]

MutatingRefused(c) ==
    /\ pc[c] = "done" /\ req[c].hasParams
    /\ req[c].name \in MutatingBuiltins
    /\ resp[c].kind = "error"

\* C28: when a call of a mutating built-in tool returns an error envelope,
\* the graph and the backing file are as the call found them, the calls
\* whose arguments lack the field or carry a value that is not an array
\* included.
C28_ErrorLeavesGraph ==
    \A c \in Calls :
        MutatingRefused(c) =>
            /\ nodes = before[c].nodes
            /\ edges = before[c].edges
            /\ file = before[c].file

\* delete_nodes was called with nodeNames the string "Garrick", a node that
\* the graph holds with an edge, and was answered with an error
C28_Witness ==
    /\ MutatingRefused(1) /\ req[1].name = T_delete_nodes
    /\ ~IsArray(req[1].args) /\ req[1].args.items = <<"Garrick">>
    /\ HasNode("Garrick")
    /\ \E i \in 1..Len(edges) : edges[i].from = "Garrick" \/ edges[i].to = "Garrick"
    /\ op[1].method = "deleteNodes" /\ Raised(outcome[1])

=============================================================================
